---- MODULE Spec2Model ----
(***************************************************************************)
(* Scheduling and collection-orchestration engine of the horse-stakes odds *)
(* collector (DailyOddsCollector, second revision in src/@types/ws.d.ts).  *)
(*                                                                         *)
(* The specifications share the variables below; the main ones are:       *)
(*   SpecCadence  the cadence policy of a job firing, as a pure function   *)
(*   SpecPass     one collectOdds call, bet-type by bet-type               *)
(*   Spec         the scheduler: jobs, firings, the semaphore, the Store   *)
(***************************************************************************)
EXTENDS Integers, Sequences, FiniteSets, Bags, TLC

VARIABLES
    now,         \* wall clock, minutes (one canonical zone)
    raceStatus,  \* Store: races.status per race id ("absent" = no row)
    activeJobs,  \* DailyOddsCollector.activeJobs: race id -> job id, 0 = none
    jobs,        \* every schedule.Job created so far: job id -> record
    semRunning,  \* collectingSemaphore.running
    semQueue,    \* collectingSemaphore.queue (waiters, FIFO)
    proc,        \* in-flight asynchronous callbacks (firings, registrations)
    pass,        \* one collectOdds call followed bet-type by bet-type
    errorCount,  \* browserState.errorCount
    cad          \* one evaluation of the cadence policy

vars == <<now, raceStatus, activeJobs, jobs, semRunning, semQueue, proc, pass,
         errorCount, cad>>

-----------------------------------------------------------------------------
(* Program constants                                                       *)

MAX_RETRIES == 3
maxConcurrent == 3
maxErrors == 5
MsPerMinute == 60000
FINAL_ODDS_WINDOW == 5 * 60 * 1000
HalfHourMs == 30 * 60 * 1000
ThreeHoursMs == 3 * 60 * 60 * 1000
TwelveHoursMs == 12 * 60 * 60 * 1000

CronStep == 5                      \* the cron expression fires every 5 minutes
DayMinutes == 24 * 60

\* ['tanpuku','wakuren','umaren','wide','umatan','fuku3','tan3']
betTypes == <<"tanpuku", "wakuren", "umaren", "wide", "umatan", "fuku3", "tan3">>
NumBetTypes == Len(betTypes)

-----------------------------------------------------------------------------
(* Cadence policy of a firing (scheduleOddsCollection, job callback)       *)

\* Mutant: the 30-minute bucket excludes its boundary.
ShouldCollectOpenBoundary(timeToRace, minutes, isGrade) ==
    LET base ==
          IF isGrade
          THEN IF timeToRace < HalfHourMs THEN TRUE
               ELSE IF timeToRace <= ThreeHoursMs THEN minutes % 10 = 0
               ELSE IF timeToRace <= TwelveHoursMs THEN minutes % 30 = 0
               ELSE minutes = 0
          ELSE IF timeToRace < HalfHourMs THEN minutes % 10 = 0
               ELSE minutes % 30 = 0
    IN  IF timeToRace <= 0 THEN TRUE ELSE base

\* Mutant: a grade race inside the last 30 minutes is polled on the
\* 10-minute cadence of a non-grade race.
ShouldCollectGradeAsNormal(timeToRace, minutes, isGrade) ==
    LET base ==
          IF isGrade
          THEN IF timeToRace <= HalfHourMs THEN minutes % 10 = 0
               ELSE IF timeToRace <= ThreeHoursMs THEN minutes % 10 = 0
               ELSE IF timeToRace <= TwelveHoursMs THEN minutes % 30 = 0
               ELSE minutes = 0
          ELSE IF timeToRace <= HalfHourMs THEN minutes % 10 = 0
               ELSE minutes % 30 = 0
    IN  IF timeToRace <= 0 THEN TRUE ELSE base

\* shouldCollect as the callback computes it: the if/else chain on
\* timeToRace, then the override once post time is reached.
ShouldCollect(timeToRace, minutes, isGrade) ==
    LET base ==
          IF isGrade
          THEN IF timeToRace <= HalfHourMs THEN TRUE
               ELSE IF timeToRace <= ThreeHoursMs THEN minutes % 10 = 0
               ELSE IF timeToRace <= TwelveHoursMs THEN minutes % 30 = 0
               ELSE minutes = 0
          ELSE IF timeToRace <= HalfHourMs THEN minutes % 10 = 0
               ELSE minutes % 30 = 0
    IN  IF timeToRace <= 0 THEN TRUE ELSE base

\* The branch a firing past the grade gate takes.
FiringBranch(timeToRace, minutes, isGrade) ==
    IF timeToRace > -FINAL_ODDS_WINDOW
    THEN IF ShouldCollect(timeToRace, minutes, isGrade) THEN "collect" ELSE "skip"
    ELSE "retire"

-----------------------------------------------------------------------------
(* SpecCadence: the policy applied to sampled inputs                       *)

TSlack == 1

CadenceBoundaries ==
    {-FINAL_ODDS_WINDOW, 0, HalfHourMs, ThreeHoursMs, TwelveHoursMs}

\* Documented examples: 20, 45 and 150 minutes to post.
CadenceExamples == {20 * MsPerMinute, 45 * MsPerMinute, 150 * MsPerMinute}

TSamples ==
    {b + d : b \in CadenceBoundaries, d \in (-TSlack)..TSlack} \cup CadenceExamples

InitCadence ==
    /\ cad \in [T : TSamples, minute : 0..59, isGrade : BOOLEAN, result : {"pending"}]
    /\ now = 0
    /\ raceStatus = <<>>
    /\ activeJobs = <<>>
    /\ jobs = <<>>
    /\ semRunning = 0
    /\ semQueue = <<>>
    /\ proc = <<>>
    /\ pass = <<>>
    /\ errorCount = 0

\* The firing evaluates the policy for its timeToRace and minute-of-hour.
CadenceDecide ==
    /\ cad.result = "pending"
    /\ cad' = [cad EXCEPT !.result = FiringBranch(cad.T, cad.minute, cad.isGrade)]
    /\ UNCHANGED <<now, raceStatus, activeJobs, jobs, semRunning, semQueue, proc, pass,
                   errorCount>>

NextCadence == CadenceDecide

SpecCadence == InitCadence /\ [][NextCadence]_vars

\* The table of the specification, written from its prose.
CadenceTable(T, m, g) ==
    IF T <= 0 THEN TRUE
    ELSE IF g
         THEN (T <= HalfHourMs)
              \/ (HalfHourMs < T /\ T <= ThreeHoursMs /\ m % 10 = 0)
              \/ (ThreeHoursMs < T /\ T <= TwelveHoursMs /\ m % 30 = 0)
              \/ (T > TwelveHoursMs /\ m = 0)
         ELSE (T <= HalfHourMs /\ m % 10 = 0)
              \/ (T > HalfHourMs /\ m % 30 = 0)

\* C8: for T > -5min the should-collect decision of a firing equals the
\* table of the specification for every T, minute and grade flag.
C8_CadenceMatchesTable ==
    (cad.result # "pending" /\ cad.T > -FINAL_ODDS_WINDOW) =>
        (cad.result = "collect") = CadenceTable(cad.T, cad.minute, cad.isGrade)

C8_Witness ==
    /\ cad.result = "collect"
    /\ cad.isGrade
    /\ cad.T = ThreeHoursMs
    /\ cad.minute = 10

\* C9 (as stated): grade at 20min collects at every minute, grade at 150min
\* and minute 40 does not collect, non-grade at 45min and minute 30 collects.
C9_ExamplesAsStated ==
    cad.result # "pending" =>
        /\ (cad.isGrade /\ cad.T = 20 * MsPerMinute) => cad.result = "collect"
        /\ (cad.isGrade /\ cad.T = 150 * MsPerMinute /\ cad.minute = 40)
               => cad.result = "skip"
        /\ (~cad.isGrade /\ cad.T = 45 * MsPerMinute /\ cad.minute = 30)
               => cad.result = "collect"

\* C9 (amended): grade at 20min collects at every minute; grade at 150min
\* collects at minute 40 (40 mod 10 = 0) and at every other multiple of 10,
\* and does not collect at any other minute; non-grade at 45min and minute
\* 30 collects.
C9_CadenceExamples ==
    cad.result # "pending" =>
        /\ (cad.isGrade /\ cad.T = 20 * MsPerMinute) => cad.result = "collect"
        /\ (cad.isGrade /\ cad.T = 150 * MsPerMinute /\ cad.minute = 40)
               => cad.result = "collect"
        /\ (cad.isGrade /\ cad.T = 150 * MsPerMinute /\ cad.minute % 10 # 0)
               => cad.result = "skip"
        /\ (~cad.isGrade /\ cad.T = 45 * MsPerMinute /\ cad.minute = 30)
               => cad.result = "collect"

C9_Witness ==
    /\ cad.result = "collect"
    /\ cad.isGrade
    /\ cad.T = 150 * MsPerMinute
    /\ cad.minute = 40

-----------------------------------------------------------------------------
(* Races and the clock                                                     *)

NumRaces == 2
Races == 1..NumRaces

\* Post time of the first race: 15:40 on day 1; every later race starts one
\* cron step after the previous one.
FirstPost == DayMinutes + 15 * 60 + 40
StartTime(r) == FirstPost + CronStep * (r - 1)

StatusValues == {"absent", "upcoming", "done"}

-----------------------------------------------------------------------------
(* collectingSemaphore                                                     *)

\* acquire() takes a slot at once when one is free, else it queues.
SemFree(running) == running < maxConcurrent

\* release(): running--, then the head waiter, if any and a slot is free,
\* is resumed (its closure does running++ synchronously).
ReleaseOnce(s) ==
    LET r1 == s.running - 1
    IN  IF Len(s.queue) > 0 /\ r1 < maxConcurrent
        THEN [running |-> r1 + 1, queue |-> Tail(s.queue),
              woken |-> Append(s.woken, Head(s.queue))]
        ELSE [running |-> r1, queue |-> s.queue, woken |-> s.woken]

RECURSIVE ReleaseTimes(_, _)
ReleaseTimes(s, n) == IF n = 0 THEN s ELSE ReleaseTimes(ReleaseOnce(s), n - 1)

SemState == [running |-> semRunning, queue |-> semQueue, woken |-> <<>>]

\* How many times each exit path of collectOdds calls release(): the early
\* return and the terminal pass release and then run the finally block, the
\* regular pass and an exception reach the finally block alone.
ReleasesOnExit(path) ==
    CASE path = "noop"     -> 2
      [] path = "terminal" -> 2
      [] path = "regular"  -> 1
      [] path = "thrown"   -> 1

-----------------------------------------------------------------------------
(* collectOdds: the decisions of one call                                  *)

\* Mutant: the early return tests only for a missing row.
LookupBranchNoDoneCheck(status, started) ==
    IF status = "absent" THEN "noop"
    ELSE IF started /\ status = "upcoming" THEN "terminal"
    ELSE "regular"

\* Mutant: the terminal pass is never chosen.
LookupBranchNoTerminal(status, started) ==
    IF status = "absent" \/ status = "done" THEN "noop"
    ELSE "regular"

\* After the race lookup: no-op if the row is missing or done, the terminal
\* pass if post time has passed and the race is still upcoming, else a
\* regular pass.  started is raceStartTimeUTC < nowUTC.
LookupBranch(status, started) ==
    IF status = "absent" \/ status = "done" THEN "noop"
    ELSE IF started /\ status = "upcoming" THEN "terminal"
    ELSE "regular"

\* Mutant: a scraper failure on the last attempt is rethrown.
ScraperCatchRethrow(retryCount, outcome) ==
    IF retryCount + 1 >= MAX_RETRIES THEN "throw" ELSE "retry"

\* The outer catch (a failure of collectOddsForBetType, of whatever class):
\* retryCount++, then break at the limit, else sleep and loop.
ScraperCatch(retryCount, outcome) ==
    IF retryCount + 1 >= MAX_RETRIES THEN "break" ELSE "retry"

\* The inner catch (a failure of the Store handler): a TimeoutError breaks
\* at once, any other failure breaks on the last attempt, else retryCount++.
StoreCatch(retryCount, outcome) ==
    IF outcome = "timeout" THEN "break"
    ELSE IF retryCount = MAX_RETRIES - 1 THEN "break"
    ELSE "retry"

\* "browser" is a failure whose message contains 'browser'.
ScrapeOutcomes == {"odds", "empty", "timeout", "error", "browser"}

\* browserState.recordError, and resetBrowser() once the threshold is
\* reached: a successful reset clears the counter, a failed one leaves it.
ErrorCountAfter(count, outcome, resetOk) ==
    IF outcome # "browser" THEN count
    ELSE IF count + 1 >= maxErrors /\ resetOk THEN 0
    ELSE count + 1
StoreOutcomes == {"ok", "timeout", "error"}

-----------------------------------------------------------------------------
(* SpecPass: one collectOdds(raceId) call, bet-type by bet-type            *)

MaxScrapes == 4     \* cap on scraper calls per bet-type (the code has none)
MaxErrorCount == 6  \* cap on browserState.errorCount

\* Before any post time, and after every post time.
PassTimes == {StartTime(1), StartTime(NumRaces) + CronStep}

InitPass ==
    /\ now \in PassTimes
    /\ raceStatus \in [Races -> StatusValues]
    /\ semRunning = 0
    /\ semQueue = <<>>
    /\ \E r \in Races :
         pass = [pc |-> "start", race |-> r, branch |-> "none",
                 betIdx |-> 0, retryCount |-> 0,
                 scrapes |-> 0, startedBets |-> 0,
                 timeoutSeen |-> FALSE, scrapeAfterTimeout |-> FALSE,
                 firstFailed |-> 0, firstFailKind |-> "none",
                 wrote |-> FALSE, startedAtWrite |-> -1,
                 status0 |-> raceStatus, releases |-> 0]
    /\ activeJobs = <<>>
    /\ jobs = <<>>
    /\ proc = <<>>
    /\ cad = <<>>
    /\ errorCount = 0

\* The call leaves through `path`: the semaphore is released as that path
\* releases it.
PassExit(p, path) ==
    LET n == ReleasesOnExit(path)
        s == ReleaseTimes(SemState, n)
    IN  /\ pass' = [p EXCEPT !.pc = IF path = "thrown" THEN "thrown" ELSE "returned",
                             !.releases = @ + n]
        /\ semRunning' = s.running
        /\ semQueue' = s.queue

\* History: the first bet-type given up on, and the class of the failure
\* that ended it.
RecordFail(p, kind) ==
    IF p.firstFailed = 0
    THEN [p EXCEPT !.firstFailed = p.betIdx, !.firstFailKind = kind]
    ELSE p

FailKind(o) == IF o = "timeout" THEN "timeout" ELSE "other"

\* Mutant: the for loop steps over a bet-type.
PassBreakSkipping(q) ==
        IF q.betIdx < NumBetTypes
        THEN /\ pass' = [q EXCEPT !.betIdx = IF @ + 2 <= NumBetTypes THEN @ + 2 ELSE @ + 1,
                                  !.retryCount = 0, !.scrapes = 0,
                                  !.timeoutSeen = FALSE, !.pc = "scrape"]
             /\ UNCHANGED <<semRunning, semQueue>>
        ELSE IF q.branch = "terminal"
        THEN /\ pass' = [q EXCEPT !.pc = "markDone"]
             /\ UNCHANGED <<semRunning, semQueue>>
        ELSE PassExit(q, "regular")

\* The while loop of the current bet-type is left (break): the for loop
\* moves to the next bet-type, or the loop is over.
PassBreak(q) ==
        IF q.betIdx < NumBetTypes
        THEN /\ pass' = [q EXCEPT !.betIdx = @ + 1, !.retryCount = 0, !.scrapes = 0,
                                  !.timeoutSeen = FALSE, !.pc = "scrape"]
             /\ UNCHANGED <<semRunning, semQueue>>
        ELSE IF q.branch = "terminal"
        THEN /\ pass' = [q EXCEPT !.pc = "markDone"]
             /\ UNCHANGED <<semRunning, semQueue>>
        ELSE PassExit(q, "regular")

\* const semaphoreAcquired = await this.collectingSemaphore.acquire()
PassAcquire ==
    /\ pass.pc = "start"
    /\ SemFree(semRunning)
    /\ semRunning' = semRunning + 1
    /\ pass' = [pass EXCEPT !.pc = "acquired"]
    /\ UNCHANGED <<now, raceStatus, semQueue, activeJobs, jobs, proc, cad, errorCount>>

\* Browser checks, then the race lookup through withDbRetry and the choice
\* of the pass; a lookup that keeps failing is rethrown.
PassLookup ==
    /\ pass.pc = "acquired"
    /\ \E dbOk \in BOOLEAN :
         IF ~dbOk
         THEN PassExit(pass, "thrown")
         ELSE LET b == LookupBranch(raceStatus[pass.race], StartTime(pass.race) < now)
              IN  IF b = "noop"
                  THEN PassExit([pass EXCEPT !.branch = b], "noop")
                  ELSE /\ pass' = [pass EXCEPT !.branch = b, !.betIdx = 1,
                                               !.retryCount = 0, !.pc = "scrape"]
                       /\ UNCHANGED <<semRunning, semQueue>>
    /\ UNCHANGED <<now, raceStatus, activeJobs, jobs, proc, cad, errorCount>>

\* One call of collector.collectOddsForBetType and what the loop does with
\* its outcome: a non-empty result goes to the Store handler, an empty
\* result falls through to the loop test with retryCount unchanged, a
\* failure goes to the outer catch.
ScrapeStep(counted) ==
    /\ pass.pc = "scrape"
    /\ pass.retryCount < MAX_RETRIES
    /\ \E o \in ScrapeOutcomes, resetOk \in BOOLEAN :
         LET p == [pass EXCEPT !.scrapes = counted,
                               !.startedBets = IF pass.scrapes = 0 THEN @ + 1 ELSE @,
                               !.scrapeAfterTimeout = @ \/ pass.timeoutSeen,
                               !.timeoutSeen = @ \/ (o = "timeout")]
             c == ScraperCatch(p.retryCount, o)
         IN  /\ o = "browser" => errorCount < MaxErrorCount
             /\ (o # "browser" \/ errorCount + 1 < maxErrors) => resetOk
             /\ errorCount' = ErrorCountAfter(errorCount, o, resetOk)
             /\ CASE o = "odds" ->
                       /\ pass' = [p EXCEPT !.pc = "store"]
                       /\ UNCHANGED <<semRunning, semQueue>>
                  [] o = "empty" ->
                       /\ pass' = p
                       /\ UNCHANGED <<semRunning, semQueue>>
                  [] o \notin {"odds", "empty"} /\ c = "retry" ->
                       /\ pass' = [p EXCEPT !.retryCount = @ + 1]
                       /\ UNCHANGED <<semRunning, semQueue>>
                  [] o \notin {"odds", "empty"} /\ c = "break" ->
                       PassBreak(RecordFail(p, FailKind(o)))
                  [] OTHER -> PassExit(RecordFail(p, FailKind(o)), "thrown")
    /\ UNCHANGED <<now, raceStatus, activeJobs, jobs, proc, cad>>

\* The scraper call of SpecPass: calls are counted up to MaxScrapes.
PassScrape ==
    /\ pass.scrapes < MaxScrapes
    /\ ScrapeStep(pass.scrapes + 1)

\* handleTanpukuOdds / handleOtherOdds on a non-empty result, and the inner
\* catch.
PassStore ==
    /\ pass.pc = "store"
    /\ \E o \in StoreOutcomes :
         LET p == [pass EXCEPT !.wrote = TRUE]
         IN  IF o = "ok"
             THEN PassBreak(p)
             ELSE LET c == StoreCatch(p.retryCount, o)
                  IN  IF c = "break"
                      THEN PassBreak(RecordFail(p, FailKind(o)))
                      ELSE /\ pass' = [p EXCEPT !.retryCount = @ + 1, !.pc = "scrape"]
                           /\ UNCHANGED <<semRunning, semQueue>>
    /\ UNCHANGED <<now, raceStatus, activeJobs, jobs, proc, cad, errorCount>>

\* End of the terminal pass: status 'done' is written through withDbRetry,
\* then release() and return; an update that keeps failing is rethrown.
PassMarkDone ==
    /\ pass.pc = "markDone"
    /\ \E dbOk \in BOOLEAN :
         IF dbOk
         THEN /\ raceStatus' = [raceStatus EXCEPT ![pass.race] =
                                   IF @ = "absent" THEN @ ELSE "done"]
              /\ PassExit([pass EXCEPT !.startedAtWrite = pass.startedBets], "terminal")
         ELSE /\ PassExit(pass, "thrown")
              /\ UNCHANGED raceStatus
    /\ UNCHANGED <<now, activeJobs, jobs, proc, cad, errorCount>>

NextPass == PassAcquire \/ PassLookup \/ PassScrape \/ PassStore \/ PassMarkDone

SpecPass == InitPass /\ [][NextPass]_vars

\* The scraper call without a limit on the calls: past MaxScrapes the count
\* starts again at 1, so that a loop of the code is a cycle of the model.
PassScrapeLive ==
    ScrapeStep(IF pass.scrapes < MaxScrapes THEN pass.scrapes + 1 ELSE 1)

NextPassLive == PassAcquire \/ PassLookup \/ PassScrapeLive \/ PassStore \/ PassMarkDone

\* One call whose every awaited scraper and Store call settles: the call
\* keeps taking its next step as long as it has one.
SpecPassLive == InitPass /\ [][NextPassLive]_vars /\ WF_vars(NextPassLive)

PassOver == pass.pc \in {"markDone", "returned", "thrown"}
CalledStarted == StartTime(pass.race) < now

\* C3 (as stated): in one pass the scraper is invoked at most 3 times for
\* each bet-type, whatever the scraper and the Store return.
C3_ScraperAtMostThree == pass.scrapes <= MAX_RETRIES

\* C4 (as stated): once the scraper has raised a TimeoutError for a
\* bet-type, that bet-type is not scraped again in the pass.
C4_NoScrapeAfterTimeout == ~pass.scrapeAfterTimeout

\* C5: a bet-type given up on (a timeout-class failure, or another failure
\* at the attempt limit) never stops the pass: the call is then positioned
\* on the next bet-type, and a pass that is over has attempted all seven.
C5_FailureDoesNotStopPass ==
    pass.firstFailed > 0 =>
        /\ pass.firstFailed < NumBetTypes => pass.betIdx > pass.firstFailed
        /\ PassOver => pass.startedBets = NumBetTypes

C5_Witness ==
    /\ pass.pc = "returned"
    /\ pass.firstFailed = 3
    /\ pass.firstFailKind = "timeout"
    /\ pass.startedBets = NumBetTypes

C37_BetTypesInOrderOneAtATime ==
    [][/\ pass'.betIdx # pass.betIdx =>
            /\ pass'.betIdx = pass.betIdx + 1
            /\ pass.pc \in {"acquired", "scrape", "store"}
            /\ pass'.pc = "scrape"
            /\ pass'.retryCount = 0
       /\ pass'.startedBets # pass.startedBets =>
            /\ pass.pc = "scrape"
            /\ pass'.startedBets = pass.startedBets + 1
            /\ betTypes[pass'.startedBets] = betTypes[pass.betIdx]]_vars

\* The Store update of the last bet-type, tan3, after two failed attempts
\* on it and with the six bet-types before it done.
C37_Witness ==
    /\ pass.pc = "store"
    /\ betTypes[pass.betIdx] = "tan3"
    /\ pass.retryCount = 2
    /\ pass.startedBets = NumBetTypes

\* C7: a call for a race that is absent from the Store or already 'done'
\* never invokes the scraper, never calls a Store handler and leaves every
\* race status as it was.
C7_NoopLeavesNoTrace ==
    pass.status0[pass.race] \in {"absent", "done"} =>
        /\ pass.startedBets = 0
        /\ ~pass.wrote
        /\ raceStatus = pass.status0

C7_Witness ==
    /\ pass.pc = "returned"
    /\ pass.status0[pass.race] = "done"
    /\ CalledStarted

\* C29: every collectOdds call eventually returns (or throws) and has then
\* released the semaphore, whatever the scraper and the Store answer,
\* an always empty scrape result included.
C29_PassEventuallyOver ==
    <>(pass.pc \in {"returned", "thrown"} /\ pass.releases >= 1)

-----------------------------------------------------------------------------
(* Spec: the scheduler.  Jobs, their firings, registrations, the semaphore *)
(* and the race rows of the Store.  A collectOdds call is followed here    *)
(* from one suspension point to the next; its bet-type loop, which touches *)
(* none of these variables, is one step.                                   *)

MaxProcs == 4     \* asynchronous callbacks in flight at once
MaxJobs == 2      \* schedule.Job objects created in one run
MaxTicks == 2     \* cron ticks followed from the tick before the first post
MaxDeficit == 1   \* no new collectOdds call once running is below -MaxDeficit

\* collectionStartTimeUTC of a grade race: 09:00 on the day before the day
\* of the race.
CollectionStart(r) == (StartTime(r) \div DayMinutes - 1) * DayMinutes + 9 * 60

\* The clock values followed: the tick before the gate, the gate, and the
\* ticks around the post times.
Times ==
    {CollectionStart(1) - CronStep, CollectionStart(1)}
        \cup {FirstPost - CronStep + CronStep * k : k \in 0..MaxTicks}

TimeToRace(r) == (StartTime(r) - now) * MsPerMinute

\* An asynchronous callback in flight: where it stands, its race, the job
\* whose firing it is (0 for an initial collection) and the collectOdds
\* calls it has made.
Callback(pc, r, j, n) == [pc |-> pc, race |-> r, job |-> j, calls |-> n]

Init ==
    /\ now = CollectionStart(1) - CronStep
    /\ raceStatus \in [Races -> {"absent", "upcoming"}]
    /\ activeJobs = [r \in Races |-> 0]
    /\ jobs = <<>>
    /\ semRunning = 0
    /\ semQueue = <<>>
    /\ proc = EmptyBag
    /\ pass = <<>>
    /\ errorCount = 0
    /\ cad = <<>>

InFlight == BagCardinality(proc) + Len(semQueue)

At(pc) == {c \in BagToSet(proc) : c.pc = pc}

RECURSIVE Resumed(_)
Resumed(woken) ==
    IF woken = <<>> THEN EmptyBag
    ELSE SetToBag({[Head(woken) EXCEPT !.pc = "holding"]}) (+) Resumed(Tail(woken))

\* The entry of collectOdds in a callback of race r: acquire() is run up to
\* the first suspension, so the slot is taken, or the waiter queued, at once.
EnterCollect(r, j) ==
    /\ InFlight < MaxProcs
    /\ semRunning >= -MaxDeficit
    /\ IF SemFree(semRunning)
       THEN /\ semRunning' = semRunning + 1
            /\ semQueue' = semQueue
            /\ proc' = proc (+) SetToBag({Callback("holding", r, j, 1)})
       ELSE /\ semRunning' = semRunning
            /\ semQueue' = Append(semQueue, Callback("queued", r, j, 1))
            /\ proc' = proc

\* Mutant: the catch block of a firing cancels the job.
JobAfterErrorCancelled(job) == [job EXCEPT !.cancelled = TRUE, !.fired = TRUE]

\* The catch block of a firing logs and awaits recoverFromError; it does
\* not touch the job.
JobAfterError(job) == job

\* An error thrown inside a firing of a job is caught by the callback's
\* catch block, which awaits recoverFromError; an error thrown inside the
\* initial collection is caught by scheduleOddsCollection, which returns.
Caught(c, path) ==
    IF path = "thrown" /\ c.job # 0
    THEN SetToBag({[c EXCEPT !.pc = "recover"]})
    ELSE EmptyBag

JobsAfterExit(c, path) ==
    IF path = "thrown" /\ c.job # 0
    THEN [jobs EXCEPT ![c.job] = JobAfterError(@)]
    ELSE jobs

\* collectOdds of callback c leaves through `path`: the releases of that
\* path, the waiters they resume, and the end of the callback.
LeaveCollect(c, path) ==
    LET s == ReleaseTimes(SemState, ReleasesOnExit(path))
    IN  /\ semRunning' = s.running
        /\ semQueue' = s.queue
        /\ proc' = (proc (-) SetToBag({c})) (+) Resumed(s.woken) (+) Caught(c, path)
        /\ jobs' = JobsAfterExit(c, path)

Step(c, d) == (proc (-) SetToBag({c})) (+) SetToBag({d})

\* Time passes to the next cron tick; every live job becomes due again.
Advance ==
    /\ \E t \in Times :
         /\ t > now
         /\ \A u \in Times : u > now => t <= u
         /\ now' = t
    /\ jobs' = [j \in DOMAIN jobs |->
                  IF jobs[j].cancelled THEN jobs[j] ELSE [jobs[j] EXCEPT !.fired = FALSE]]
    /\ UNCHANGED <<raceStatus, activeJobs, semRunning, semQueue, proc, pass,
                   errorCount, cad>>

\* A schedule.Job: `wrote` records that its self-retirement wrote 'done'.
NewJob(r, g) ==
    [race |-> r, isGrade |-> g, cancelled |-> FALSE, fired |-> TRUE, wrote |-> FALSE]

NotCancelled(job) == job

Cancelled(job) == [job EXCEPT !.cancelled = TRUE, !.fired = TRUE]

\* Mutant: the job already stored for the race is left running.
CancelExistingNot(js, old) == js

\* if (this.activeJobs.has(race.id)) { existingJob.cancel(); delete }
CancelExisting(js, old) ==
    [j \in DOMAIN js |-> IF j = old THEN Cancelled(js[j]) ELSE js[j]]

\* Mutant: the initial collection of a grade race is never run.
InitialCollectionNonGradeOnly(g, t, r) == ~g

\* The test before the initial collection of scheduleOddsCollection.
InitialCollection(g, t, r) == ~g \/ t >= CollectionStart(r)

\* scheduleOddsCollection(race): an existing job of the race is cancelled
\* and removed, a new job is created and stored, and the initial collection
\* runs unless a grade race is still before its collection start.  The new
\* job first fires at the next cron tick.
ScheduleOddsCollection(r, g) ==
    /\ Len(jobs) < MaxJobs
    /\ jobs' = Append(CancelExisting(jobs, activeJobs[r]), NewJob(r, g))
    /\ activeJobs' = [activeJobs EXCEPT ![r] = Len(jobs) + 1]
    /\ IF InitialCollection(g, now, r)
       THEN EnterCollect(r, 0)
       ELSE UNCHANGED <<semRunning, semQueue, proc>>

\* The names under which the races are stored: the first carries a grade
\* token in its name, the others do not (the grade of a discovered race is
\* read from its icon, not from its name).
RaceName(r) == IF r = 1 THEN <<"Kinen", "(", "G1", ")">> ELSE <<"Kinen">>

Includes(name, token) == \E i \in DOMAIN name : name[i] = token

\* checkAndRestoreRaceJobs builds the RaceInfo of a race read from storage:
\* isGrade is name.includes('G1') || name.includes('G2') || name.includes('G3').
GradeOfRestored(name) ==
    Includes(name, "G1") \/ Includes(name, "G2") \/ Includes(name, "G3")

\* Mutant: every race read as 'upcoming' is scheduled, with or without a job.
MissingJobsIgnoringActive(status, active) == {r \in Races : status[r] = "upcoming"}

\* The races checkAndRestoreRaceJobs schedules: stored as 'upcoming' and
\* without an entry in the active-job map.
MissingJobs(status, active) == {r \in Races : status[r] = "upcoming" /\ active[r] = 0}

\* One iteration of the loop of checkAndRestoreRaceJobs: race r, read as
\* 'upcoming' and without an active job, is scheduled again.
RestoreRace(r) ==
    /\ r \in MissingJobs(raceStatus, activeJobs)
    /\ ScheduleOddsCollection(r, GradeOfRestored(RaceName(r)))
    /\ UNCHANGED <<now, raceStatus, pass, errorCount, cad>>

\* Race discovery lists race r as not yet started: registerRace inserts the
\* row as 'upcoming' if there is none, then the race is scheduled as a
\* grade race (getTodayGradeRaces returns graded races only).
DiscoverUpcoming(r) ==
    /\ now < StartTime(r)
    /\ raceStatus' = [raceStatus EXCEPT ![r] = IF @ = "absent" THEN "upcoming" ELSE @]
    /\ ScheduleOddsCollection(r, TRUE)
    /\ UNCHANGED <<now, pass, errorCount, cad>>

\* Race discovery finds race r shown as already started: its row, if any,
\* is set to 'done'; nothing is scheduled and no job is touched.
DiscoverStarted(r) ==
    /\ now >= StartTime(r)
    /\ raceStatus[r] = "upcoming"
    /\ raceStatus' = [raceStatus EXCEPT ![r] = "done"]
    /\ UNCHANGED <<now, activeJobs, jobs, semRunning, semQueue, proc, pass,
                   errorCount, cad>>

\* One firing of job j, up to its first suspension.
Fire(j) ==
    /\ j \in DOMAIN jobs
    /\ ~jobs[j].cancelled
    /\ ~jobs[j].fired
    /\ LET r == jobs[j].race
           g == jobs[j].isGrade
           gated == g /\ now < CollectionStart(r)
           b == FiringBranch(TimeToRace(r), now % 60, g)
       IN  CASE gated \/ b = "skip" ->
                  /\ jobs' = [jobs EXCEPT ![j].fired = TRUE]
                  /\ UNCHANGED <<activeJobs, semRunning, semQueue, proc>>
             [] ~gated /\ b = "collect" ->
                  /\ jobs' = [jobs EXCEPT ![j].fired = TRUE]
                  /\ EnterCollect(r, j)
                  /\ UNCHANGED activeJobs
             [] ~gated /\ b = "retire" ->
                  /\ InFlight < MaxProcs
                  /\ jobs' = [jobs EXCEPT ![j] = Cancelled(@)]
                  /\ activeJobs' = [activeJobs EXCEPT ![r] = 0]
                  /\ proc' = proc (+) SetToBag({Callback("retLookup", r, j, 0)})
                  /\ UNCHANGED <<semRunning, semQueue>>
    /\ UNCHANGED <<now, raceStatus, pass, errorCount, cad>>

\* collectOdds after the semaphore: browser checks, the race lookup and
\* the choice of the pass.
CallLookup(c) ==
    /\ c \in At("holding")
    /\ \E dbOk \in BOOLEAN :
         IF ~dbOk
         THEN LeaveCollect(c, "thrown")
         ELSE LET b == LookupBranch(raceStatus[c.race], StartTime(c.race) < now)
              IN  IF b = "noop"
                  THEN LeaveCollect(c, "noop")
                  ELSE /\ proc' = Step(c, [c EXCEPT !.pc = b])
                       /\ UNCHANGED <<semRunning, semQueue, jobs>>
    /\ UNCHANGED <<now, raceStatus, activeJobs, pass, errorCount, cad>>

\* The regular pass runs to its end and the finally block releases.
CallRegularPass(c) ==
    /\ c \in At("regular")
    /\ LeaveCollect(c, "regular")
    /\ UNCHANGED <<now, raceStatus, activeJobs, pass, errorCount, cad>>

\* The terminal pass runs to its end and the status is written 'done'; a
\* status update that keeps failing is rethrown.
CallTerminalPass(c) ==
    /\ c \in At("terminal")
    /\ \E dbOk \in BOOLEAN :
         IF dbOk
         THEN /\ raceStatus' = [raceStatus EXCEPT ![c.race] = "done"]
              /\ LeaveCollect(c, "terminal")
         ELSE /\ LeaveCollect(c, "thrown")
              /\ UNCHANGED raceStatus
    /\ UNCHANGED <<now, activeJobs, pass, errorCount, cad>>

\* Self-retirement, after job.cancel() and activeJobs.delete(): the race is
\* looked up; a lookup that keeps failing ends the firing in its catch.
RetireLookup(c) ==
    /\ c \in At("retLookup")
    /\ \E dbOk \in BOOLEAN :
         IF ~dbOk
         THEN /\ proc' = (proc (-) SetToBag({c})) (+) Caught(c, "thrown")
              /\ jobs' = JobsAfterExit(c, "thrown")
         ELSE /\ IF raceStatus[c.race] = "upcoming"
                 THEN proc' = Step(c, [c EXCEPT !.pc = "retUpdate"])
                 ELSE proc' = proc (-) SetToBag({c})
              /\ UNCHANGED jobs
    /\ UNCHANGED <<now, raceStatus, activeJobs, semRunning, semQueue, pass,
                   errorCount, cad>>

\* Self-retirement: the race read as 'upcoming' is written 'done'.
RetireUpdate(c) ==
    /\ c \in At("retUpdate")
    /\ \E dbOk \in BOOLEAN :
         IF dbOk
         THEN /\ raceStatus' = [raceStatus EXCEPT ![c.race] = "done"]
              /\ jobs' = [jobs EXCEPT ![c.job].wrote = TRUE]
              /\ proc' = proc (-) SetToBag({c})
         ELSE /\ proc' = (proc (-) SetToBag({c})) (+) Caught(c, "thrown")
              /\ jobs' = JobsAfterExit(c, "thrown")
              /\ UNCHANGED raceStatus
    /\ UNCHANGED <<now, activeJobs, semRunning, semQueue, pass, errorCount, cad>>

\* recoverFromError: resetBrowser, then healthCheck; it returns true or
\* false and never throws, and the firing ends.
Recover(c) ==
    /\ c \in At("recover")
    /\ proc' = proc (-) SetToBag({c})
    /\ UNCHANGED <<now, raceStatus, activeJobs, jobs, semRunning, semQueue, pass,
                   errorCount, cad>>

CallbackStates ==
    {Callback(pc, r, j, 1) :
        pc \in {"holding", "regular", "terminal"}, r \in Races, j \in 0..MaxJobs}
    \cup {Callback(pc, r, j, 0) :
        pc \in {"retLookup", "retUpdate"}, r \in Races, j \in 1..MaxJobs}
    \cup {Callback("recover", r, j, n) : r \in Races, j \in 1..MaxJobs, n \in 0..1}

Next ==
    \/ Advance
    \/ \E r \in Races : DiscoverUpcoming(r)
    \/ \E r \in Races : DiscoverStarted(r)
    \/ \E r \in Races : RestoreRace(r)
    \/ \E j \in 1..MaxJobs : Fire(j)
    \/ \E c \in CallbackStates : CallLookup(c)
    \/ \E c \in CallbackStates : CallRegularPass(c)
    \/ \E c \in CallbackStates : CallTerminalPass(c)
    \/ \E c \in CallbackStates : RetireLookup(c)
    \/ \E c \in CallbackStates : RetireUpdate(c)
    \/ \E c \in CallbackStates : Recover(c)

Spec == Init /\ [][Next]_vars

-----------------------------------------------------------------------------
(* Scheduler and semaphore: properties                                     *)

\* collectOdds calls that have acquired the semaphore and not yet finished.
Holders ==
    BagCardinality([c \in At("holding") \cup At("regular") \cup At("terminal")
                      |-> CopiesIn(c, proc)])

\* C1: at every moment at most maxConcurrent (3) collectOdds calls have
\* acquired the collection semaphore and not yet finished.
C1_AtMostThreeHolders == Holders <= maxConcurrent

\* C2: a race whose stored status is 'done' has no entry in the active-job
\* map, whichever operation wrote the status.
C2_DoneHasNoJob == \A r \in Races : raceStatus[r] = "done" => activeJobs[r] = 0

Retiring == At("retLookup") \cup At("retUpdate")

\* C10 as stated: a firing with T <= -5 minutes that is about to write
\* 'done' has made one last attempt to fetch the odds.
C10_DoneAfterLastAttempt == \A c \in At("retUpdate") : c.calls >= 1

\* C10: a firing with T <= -5 minutes has cancelled its job and removed it
\* from the active set (a restoration may since have stored a new job), makes no collectOdds call, and when it read
\* the race as 'upcoming' and its update succeeded the status is 'done'
\* (nothing ever leaves 'done').
C10_RetireCancelsAndMarksDone ==
    /\ \A c \in Retiring :
         /\ TimeToRace(c.race) <= -FINAL_ODDS_WINDOW
         /\ jobs[c.job].cancelled
         /\ activeJobs[c.race] # c.job
         /\ c.calls = 0
    /\ \A j \in DOMAIN jobs :
         jobs[j].wrote =>
            /\ jobs[j].cancelled
            /\ activeJobs[jobs[j].race] # j
            /\ raceStatus[jobs[j].race] = "done"

C10_Witness ==
    \E j \in DOMAIN jobs : jobs[j].wrote /\ raceStatus[jobs[j].race] = "done"

CountCalls(p, q, r, j) ==
    BagCardinality([c \in {d \in BagToSet(p) : d.calls = 1 /\ d.race = r /\ d.job = j}
                      |-> CopiesIn(c, p)])
    + Cardinality({i \in DOMAIN q : q[i].race = r /\ q[i].job = j})

CallsOf(r, j) == CountCalls(proc, semQueue, r, j)

CallRaces ==
    {c.race : c \in {d \in BagToSet(proc) : d.calls = 1}}
        \cup {semQueue[i].race : i \in DOMAIN semQueue}

\* C12: no collectOdds call is in flight for a race (every stored race was
\* discovered as a grade race) while now precedes its collectionStart,
\* whether the call comes from a firing, an initial collection or a job
\* recreated by restoration.
C12_NoCallBeforeGate == \A r \in CallRaces : now >= CollectionStart(r)

\* C13: scheduleOddsCollection makes exactly one immediate collectOdds call
\* for the race when the race is non-grade or at or after its collection
\* start, and none when it is a grade race before it.
C13_OneInitialCollection ==
    [][Len(jobs') = Len(jobs) + 1 =>
          LET n == jobs'[Len(jobs')]
          IN  CountCalls(proc', semQueue', n.race, 0) - CallsOf(n.race, 0) =
                 IF ~n.isGrade \/ now >= CollectionStart(n.race) THEN 1 ELSE 0]_vars

C13_Witness ==
    \E j \in DOMAIN jobs :
        /\ jobs[j].isGrade /\ ~jobs[j].cancelled /\ jobs[j].fired
        /\ now >= CollectionStart(jobs[j].race)
        /\ CallsOf(jobs[j].race, 0) = 1

\* C14: every job created by restoration is scheduled with isGrade = true
\* (discovery schedules grade races only, so a job that is not a grade job
\* was created by restoration).
C14_RestoredAsGrade == \A j \in DOMAIN jobs : jobs[j].isGrade

\* C16: there is at most one un-cancelled job per race and it is the one
\* stored in the active-job map; a replaced job is cancelled.
C16_OneLiveJobPerRace ==
    /\ \A j \in DOMAIN jobs : ~jobs[j].cancelled => activeJobs[jobs[j].race] = j
    /\ \A r \in Races :
         activeJobs[r] # 0 =>
            /\ activeJobs[r] \in DOMAIN jobs
            /\ jobs[activeJobs[r]].race = r
            /\ ~jobs[activeJobs[r]].cancelled

C16_Witness ==
    \E i, j \in DOMAIN jobs :
        /\ i < j
        /\ jobs[i].race = jobs[j].race
        /\ jobs[i].cancelled /\ ~jobs[i].wrote
        /\ ~jobs[j].cancelled
        /\ TimeToRace(jobs[j].race) > 0

\* C28: the running counter of the semaphore is the number of collectOdds
\* calls that hold it, and is never negative.
C28_RunningCountsHolders ==
    /\ semRunning = Holders
    /\ semRunning >= 0

-----------------------------------------------------------------------------
(* SpecRestore: checkAndRestoreRaceJobs called twice in succession         *)

\* The loop of checkAndRestoreRaceJobs over the races read as 'upcoming'
\* (`read`, the statuses at the time of the query), from race r on: a race
\* with an active job is skipped, any other is scheduled and counted.
RECURSIVE RestoreFrom(_, _, _)
RestoreFrom(r, st, read) ==
    IF r > NumRaces THEN st
    ELSE IF r \in MissingJobs(read, st.active)
    THEN RestoreFrom(r + 1,
             [active   |-> [st.active EXCEPT ![r] = Len(st.jobs) + 1],
              jobs     |-> Append(CancelExisting(st.jobs, st.active[r]),
                                  NewJob(r, GradeOfRestored(RaceName(r)))),
              restored |-> st.restored \cup {r}],
             read)
    ELSE RestoreFrom(r + 1, st, read)

\* The jobs of the races in S, one each, in the order of the race ids.
RECURSIVE JobsFor(_, _)
JobsFor(r, S) ==
    IF r > NumRaces THEN <<>>
    ELSE IF r \in S THEN <<NewJob(r, TRUE)>> \o JobsFor(r + 1, S)
    ELSE JobsFor(r + 1, S)

JobIndex(r, S) == IF r \in S THEN Cardinality({q \in S : q <= r}) ELSE 0

ActiveCount(active) == Cardinality({r \in Races : active[r] # 0})

LiveJobs(js) == Cardinality({j \in DOMAIN js : ~js[j].cancelled})

InitRestore ==
    /\ now \in {CollectionStart(1) - CronStep, StartTime(1), StartTime(NumRaces) + CronStep}
    /\ raceStatus \in [Races -> StatusValues]
    /\ \E S \in SUBSET Races :
         /\ \A r \in S : raceStatus[r] # "absent"
         /\ jobs = JobsFor(1, S)
         /\ activeJobs = [r \in Races |-> JobIndex(r, S)]
    /\ pass = [read |-> <<>>, restored |-> <<>>, active |-> <<>>, live |-> <<>>]
    /\ semRunning = 0
    /\ semQueue = <<>>
    /\ proc = EmptyBag
    /\ errorCount = 0
    /\ cad = <<>>

\* One call of checkAndRestoreRaceJobs, from the query to its return: a
\* query that keeps failing ends the call with nothing restored; the
\* initial collection of a restored race whose post time has passed runs
\* the terminal pass, whose status update succeeds or not.
RestoreCall ==
    /\ Len(pass.read) < 2
    /\ \E dbOk \in BOOLEAN, marked \in SUBSET Races :
         LET read == IF dbOk THEN raceStatus ELSE [r \in Races |-> "absent"]
             st == RestoreFrom(1, [active |-> activeJobs, jobs |-> jobs, restored |-> {}],
                               read)
             terminal == {r \in st.restored :
                            /\ InitialCollection(GradeOfRestored(RaceName(r)), now, r)
                            /\ LookupBranch(raceStatus[r], StartTime(r) < now) = "terminal"}
         IN  /\ marked \subseteq terminal
             /\ jobs' = st.jobs
             /\ activeJobs' = st.active
             /\ raceStatus' = [r \in Races |-> IF r \in marked THEN "done" ELSE raceStatus[r]]
             /\ pass' = [read     |-> Append(pass.read, dbOk),
                         restored |-> Append(pass.restored, Cardinality(st.restored)),
                         active   |-> Append(pass.active, ActiveCount(st.active)),
                         live     |-> Append(pass.live, LiveJobs(st.jobs))]
    /\ UNCHANGED <<now, semRunning, semQueue, proc, errorCount, cad>>

NextRestore == RestoreCall

SpecRestore == InitRestore /\ [][NextRestore]_vars

-----------------------------------------------------------------------------
(* SpecStore: the odds tables under successive saves for one race          *)

MaxHorse == 3    \* horse (or frame) numbers 1..MaxHorse
MaxBatch == 2    \* entries in one scraped batch
MaxSaves == 2    \* saves followed

Horses == 1..MaxHorse

CombinationTypes == {"wakuren", "umaren", "wide", "umatan", "fuku3", "tan3"}

UnorderedTypes == {"wakuren", "umaren", "wide", "fuku3"}

Arity(type) ==
    CASE type = "tanpuku" -> 1
      [] type \in {"wakuren", "umaren", "wide", "umatan"} -> 2
      [] type \in {"fuku3", "tan3"} -> 3

\* [a, b, c].sort((a, b) => a - b), for distinct numbers.
SortTuple(h) ==
    LET S == {h[i] : i \in DOMAIN h}
    IN  [i \in DOMAIN h |-> CHOOSE x \in S : Cardinality({y \in S : y < x}) = i - 1]

\* The key under which an update function looks a combination up: the
\* participants joined with '-', sorted by updateFuku3Odds only.
KeyOf(type, h) == IF type = "fuku3" THEN SortTuple(h) ELSE h

\* The participants as they are written into a new row.
Stored(type, h) == IF type = "fuku3" THEN SortTuple(h) ELSE h

\* new Map(existing.map(row => [key, row])): a later row replaces an
\* earlier one under the same key.
ExistingMap(type, table) ==
    [k \in {KeyOf(type, table[i].h) : i \in DOMAIN table} |->
        CHOOSE i \in DOMAIN table :
            /\ KeyOf(type, table[i].h) = k
            /\ \A j \in DOMAIN table : KeyOf(type, table[j].h) = k => j <= i]

RECURSIVE NewRows(_, _, _, _)
NewRows(type, batch, known, ts) ==
    IF batch = <<>> THEN <<>>
    ELSE IF KeyOf(type, Head(batch)) \in known
    THEN NewRows(type, Tail(batch), known, ts)
    ELSE <<[h |-> Stored(type, Head(batch)), ts |-> ts]>>
             \o NewRows(type, Tail(batch), known, ts)

\* The writes of an update function, decided on the rows `read` by its
\* findMany and applied to the table as it is when they run: an entry whose
\* key was read updates that row by id, any other entry is inserted.
UpsertOnto(type, read, table, batch, ts) ==
    LET map == ExistingMap(type, read)
        hit == {map[KeyOf(type, batch[n])] :
                   n \in {m \in DOMAIN batch : KeyOf(type, batch[m]) \in DOMAIN map}}
    IN  [i \in DOMAIN table |-> IF i \in hit THEN [table[i] EXCEPT !.ts = ts] ELSE table[i]]
            \o NewRows(type, batch, DOMAIN map, ts)

\* update<Type>Odds(batch), and the band-odds half of saveOddsHistory: the
\* rows of the race are read once; an entry whose key is among them
\* updates the odds and timestamp of that row, any other entry is inserted.
Upsert(type, table, batch, ts) == UpsertOnto(type, table, table, batch, ts)

\* Mutant: every row of the odds table is taken, also a repeated horse.
ParseTanpukuKeepAll(rows) == rows

\* parseTanpukuOdds: a row whose horse number was already processed is
\* skipped.
RECURSIVE ParseTanpuku(_)
ParseTanpuku(rows) ==
    IF rows = <<>> THEN <<>>
    ELSE LET front == ParseTanpuku(SubSeq(rows, 1, Len(rows) - 1))
             last == rows[Len(rows)]
         IN  IF \E i \in DOMAIN front : front[i] = last THEN front
             ELSE Append(front, last)

\* Tuples of distinct numbers of the arity of the bet-type.
Entries(type) ==
    {h \in [1..Arity(type) -> Horses] : \A i, j \in DOMAIN h : i # j => h[i] # h[j]}

Batches(type) ==
    UNION {[1..n -> Entries(type)] : n \in 1..MaxBatch}

InitStore ==
    /\ \E type \in CombinationTypes \cup {"tanpuku"} :
         pass = [type |-> type, table |-> <<>>, history |-> <<>>, batches |-> <<>>]
    /\ now = 0
    /\ raceStatus = <<>>
    /\ activeJobs = <<>>
    /\ jobs = <<>>
    /\ semRunning = 0
    /\ semQueue = <<>>
    /\ proc = <<>>
    /\ errorCount = 0
    /\ cad = <<>>

\* handleOtherOdds: one scraped batch goes to the update function of its
\* bet-type.
UpdateOdds ==
    /\ pass.type \in CombinationTypes
    /\ Len(pass.batches) < MaxSaves
    /\ \E batch \in Batches(pass.type) :
         pass' = [pass EXCEPT
                    !.table = Upsert(pass.type, @, batch, Len(pass.batches) + 1),
                    !.batches = Append(@, batch)]
    /\ UNCHANGED <<now, raceStatus, activeJobs, jobs, semRunning, semQueue, proc,
                   errorCount, cad>>

\* saveOddsHistory(parseTanpukuOdds(page)): a point-odds row is inserted
\* for every entry, then the band odds are upserted by horseId.
SaveOddsHistory ==
    /\ pass.type = "tanpuku"
    /\ Len(pass.batches) < MaxSaves
    /\ \E rows \in Batches("tanpuku") :
         LET batch == ParseTanpuku(rows)
             ts == Len(pass.batches) + 1
         IN  pass' = [pass EXCEPT
                        !.history = @ \o [n \in DOMAIN batch |-> [h |-> batch[n], ts |-> ts]],
                        !.table = Upsert("tanpuku", @, batch, ts),
                        !.batches = Append(@, batch)]
    /\ UNCHANGED <<now, raceStatus, activeJobs, jobs, semRunning, semQueue, proc,
                   errorCount, cad>>

NextStore == UpdateOdds \/ SaveOddsHistory

SpecStore == InitStore /\ [][NextStore]_vars

Members(h) == {h[i] : i \in DOMAIN h}

\* A batch as one scrape of a page presents it: no combination twice (for
\* an unordered bet-type, no set of participants twice).
IsScrape(type, batch) ==
    \A m, n \in DOMAIN batch :
        m # n => IF type \in UnorderedTypes
                 THEN Members(batch[m]) # Members(batch[n])
                 ELSE batch[m] # batch[n]

RowsOf(table, h) == {i \in DOMAIN table : table[i].h = h}

\* C17: after scrapes of the same race, an unordered bet-type has exactly
\* one stored row for each set of participants scraped, in whatever order
\* the scrapes presented it, and an ordered bet-type has one row for each
\* ordered tuple scraped.
C17_OneRowPerCombination ==
    (/\ pass.type \in CombinationTypes
     /\ \A k \in DOMAIN pass.batches : IsScrape(pass.type, pass.batches[k]))
    => \A k \in DOMAIN pass.batches : \A n \in DOMAIN pass.batches[k] :
          LET h == pass.batches[k][n]
          IN  IF pass.type \in UnorderedTypes
              THEN Cardinality({i \in DOMAIN pass.table :
                                  Members(pass.table[i].h) = Members(h)}) = 1
              ELSE Cardinality(RowsOf(pass.table, h)) = 1

\* C18: after any sequence of update calls each combination table holds at
\* most one row per participant key, also when one batch holds the same key
\* more than once.
C18_OneRowPerKey ==
    pass.type \in CombinationTypes =>
        \A i, j \in DOMAIN pass.table :
            i # j => KeyOf(pass.type, pass.table[i].h) # KeyOf(pass.type, pass.table[j].h)

\* C19: a win/place save adds exactly one point-odds history row for each
\* horse of the scraped data and none for any other horse, changes no
\* earlier history row, and leaves at most one band-odds row per horse.
C19_HistoryGrowsBandUnique ==
    [][(pass.type = "tanpuku" /\ pass' # pass) =>
          LET batch == pass'.batches[Len(pass'.batches)]
          IN  /\ \A h \in Entries("tanpuku") :
                    Cardinality(RowsOf(pass'.history, h)) =
                        Cardinality(RowsOf(pass.history, h))
                            + (IF \E n \in DOMAIN batch : batch[n] = h THEN 1 ELSE 0)
              /\ SubSeq(pass'.history, 1, Len(pass.history)) = pass.history
              /\ \A h \in Entries("tanpuku") :
                    Cardinality(RowsOf(pass'.table, h)) <= 1]_vars

C19_Witness ==
    /\ pass.type = "tanpuku"
    /\ Len(pass.batches) = 2
    /\ Len(pass.batches[1]) = 2
    /\ Cardinality(RowsOf(pass.history, <<1>>)) = 2
    /\ \E i \in DOMAIN pass.table : pass.table[i].h = <<1>> /\ pass.table[i].ts = 2

-----------------------------------------------------------------------------
(* SpecOverlap: collectOdds passes for one race that overlap in time       *)

MaxPasses == 2   \* passes for the same race in flight at once

Passes == 1..MaxPasses

\* A batch as one scrape gives it: no key twice.
ScrapedBatches(type) ==
    {b \in Batches(type) :
        \A m, n \in DOMAIN b : m # n => KeyOf(type, b[m]) # KeyOf(type, b[n])}

\* The table of one bet-type (for tanpuku the band-odds table) is empty and
\* every pass is about to save its scrape of that bet-type.
InitOverlap ==
    /\ \E type \in CombinationTypes \cup {"tanpuku"} :
         pass = [type |-> type, table |-> <<>>,
                 ops |-> [o \in Passes |-> [pc |-> "scraped", batch |-> <<>>, read |-> <<>>]]]
    /\ now = 0
    /\ raceStatus = <<>>
    /\ activeJobs = <<>>
    /\ jobs = <<>>
    /\ semRunning = 0
    /\ semQueue = <<>>
    /\ proc = <<>>
    /\ errorCount = 0
    /\ cad = <<>>

OverlapFrame == UNCHANGED <<raceStatus, activeJobs, jobs, semRunning, semQueue, proc, errorCount, cad>>

\* The findMany of an update function (or of the band-odds half of
\* saveOddsHistory) returns the rows of the race.
FindExisting(o) ==
    /\ pass.ops[o].pc = "scraped"
    /\ \E batch \in ScrapedBatches(pass.type) :
         pass' = [pass EXCEPT !.ops[o] = [pc |-> "found", batch |-> batch, read |-> pass.table]]
    /\ UNCHANGED now
    /\ OverlapFrame

\* The updates and inserts decided on the rows read are run.
WriteRows(o) ==
    /\ pass.ops[o].pc = "found"
    /\ pass' = [pass EXCEPT
                  !.table = UpsertOnto(pass.type, pass.ops[o].read, @, pass.ops[o].batch, now + 1),
                  !.ops[o].pc = "saved"]
    /\ now' = now + 1
    /\ OverlapFrame

NextOverlap == \E o \in Passes : FindExisting(o) \/ WriteRows(o)

SpecOverlap == InitOverlap /\ [][NextOverlap]_vars

\* C30: when passes for the same race overlap, the band-odds table and
\* every combination table still hold at most one row per key.
C30_OneRowPerKeyOverlapping ==
    \A i, j \in DOMAIN pass.table :
        i # j => KeyOf(pass.type, pass.table[i].h) # KeyOf(pass.type, pass.table[j].h)

-----------------------------------------------------------------------------
(* SpecReset: the browser under concurrent operations of the collector     *)

MaxOps == 3    \* asynchronous operations that touch the browser at once

OpIds == 1..MaxOps

\* After main has awaited initialize(): a browser is running and no reset
\* is in progress.  pass.ops[o] is where operation o stands.
InitReset ==
    /\ pass = [isResetting |-> FALSE, browser |-> TRUE,
               ops |-> [o \in OpIds |-> "idle"]]
    /\ errorCount = 0
    /\ now = 0
    /\ raceStatus = <<>>
    /\ activeJobs = <<>>
    /\ jobs = <<>>
    /\ semRunning = 0
    /\ semQueue = <<>>
    /\ proc = <<>>
    /\ cad = <<>>

ResetFrame == UNCHANGED <<now, raceStatus, activeJobs, jobs, semRunning, semQueue, proc, cad>>

\* resetBrowser() up to its first await, called by the maintenance timer,
\* recoverFromError, the error threshold of collectOdds or a failed health
\* check: with a reset in progress the caller sleeps 5 s and returns true;
\* otherwise it sets isResetting and closes the browser, if there is one.
ResetEnter(o) ==
    /\ pass.ops[o] = "idle"
    /\ IF pass.isResetting
       THEN pass' = [pass EXCEPT !.ops[o] = "resetWaiting"]
       ELSE pass' = [pass EXCEPT !.isResetting = TRUE,
                                 !.ops[o] = IF pass.browser THEN "closing" ELSE "cleanup"]
    /\ UNCHANGED errorCount
    /\ ResetFrame

\* The 5 s sleep of a caller that found a reset in progress is over.
ResetWaitDone(o) ==
    /\ pass.ops[o] = "resetWaiting"
    /\ pass' = [pass EXCEPT !.ops[o] = "idle"]
    /\ UNCHANGED errorCount
    /\ ResetFrame

\* browser.close() has settled: this.browser = null, then collector.cleanup().
ResetClosed(o) ==
    /\ pass.ops[o] = "closing"
    /\ pass' = [pass EXCEPT !.browser = FALSE, !.ops[o] = "cleanup"]
    /\ UNCHANGED errorCount
    /\ ResetFrame

\* collector.cleanup() has settled (or thrown): chromium.launch() is
\* started, or the reset ends in its catch and finally blocks.
ResetCleaned(o) ==
    /\ pass.ops[o] = "cleanup"
    /\ \E ok \in BOOLEAN :
         IF ok
         THEN pass' = [pass EXCEPT !.ops[o] = "resetLaunching"]
         ELSE pass' = [pass EXCEPT !.browser = FALSE, !.isResetting = FALSE,
                                   !.ops[o] = "idle"]
    /\ UNCHANGED errorCount
    /\ ResetFrame

\* The launch of resetBrowser has settled: on success the browser is stored
\* and the error counter cleared, on failure this.browser = null; finally
\* isResetting = false.
ResetLaunched(o) ==
    /\ pass.ops[o] = "resetLaunching"
    /\ \E ok \in BOOLEAN :
         /\ pass' = [pass EXCEPT !.browser = ok, !.isResetting = FALSE, !.ops[o] = "idle"]
         /\ errorCount' = IF ok THEN 0 ELSE errorCount
    /\ ResetFrame

\* The browser test at the head of checkAndResetBrowserIfNeeded and of
\* healthCheck (both run by collectOdds): without a browser the caller runs
\* initialize(), which starts chromium.launch(); isResetting is not read.
EnsureBrowser(o) ==
    /\ pass.ops[o] = "idle"
    /\ ~pass.browser
    /\ pass' = [pass EXCEPT !.ops[o] = "initLaunching"]
    /\ UNCHANGED errorCount
    /\ ResetFrame

\* The launch of initialize() has settled: the browser is stored, or the
\* error is rethrown to the caller.
InitLaunched(o) ==
    /\ pass.ops[o] = "initLaunching"
    /\ \E ok \in BOOLEAN :
         pass' = [pass EXCEPT !.browser = IF ok THEN TRUE ELSE @, !.ops[o] = "idle"]
    /\ UNCHANGED errorCount
    /\ ResetFrame

NextReset ==
    \E o \in OpIds :
        \/ ResetEnter(o)
        \/ ResetWaitDone(o)
        \/ ResetClosed(o)
        \/ ResetCleaned(o)
        \/ ResetLaunched(o)
        \/ EnsureBrowser(o)
        \/ InitLaunched(o)

SpecReset == InitReset /\ [][NextReset]_vars

Launching == {o \in OpIds : pass.ops[o] \in {"resetLaunching", "initLaunching"}}

Resetting == {o \in OpIds : pass.ops[o] \in {"closing", "cleanup", "resetLaunching"}}

\* C20: while a reset is in progress no second browser launch is started:
\* the only launch under way is the one of the reset itself, and a reset
\* requested meanwhile neither closes nor launches a browser.
C20_NoSecondLaunchDuringReset ==
    pass.isResetting =>
        /\ Cardinality(Resetting) = 1
        /\ Launching \subseteq Resetting

\* C33: at every step at which a resetBrowser call returns true (the end
\* of the 5 s wait of a call that found a reset in flight, or the end of a
\* successful launch), a browser is installed and no reset is in flight
\* any more.
C33_TrueMeansBrowserInstalled ==
    [][\A o \in OpIds :
          (/\ pass'.ops[o] = "idle"
           /\ \/ pass.ops[o] = "resetWaiting"
              \/ pass.ops[o] = "resetLaunching" /\ pass'.browser)
             => (pass'.browser /\ ~pass'.isResetting)]_vars

-----------------------------------------------------------------------------
(* SpecHealth: healthCheck and recoverFromError, call by call              *)

Outcomes == {"none", "true", "false"}

Outcome(b) == IF b THEN "true" ELSE "false"

\* No call is running: pass.op = "none".  The browser may be missing and a
\* reset of another operation may be in progress.
Idle(browser, isResetting) ==
    [op |-> "none", pc |-> "idle", browser |-> browser, isResetting |-> isResetting,
     probe |-> "none", init |-> "none", reset |-> "none", probeReset |-> "none",
     health |-> "none",
     result |-> "none"]

InitHealth ==
    /\ pass \in {Idle(b, r) : b \in BOOLEAN, r \in BOOLEAN}
    /\ errorCount \in 0..MaxErrorCount
    /\ now = 0
    /\ raceStatus = <<>>
    /\ activeJobs = <<>>
    /\ jobs = <<>>
    /\ semRunning = 0
    /\ semQueue = <<>>
    /\ proc = <<>>
    /\ cad = <<>>

HealthFrame == UNCHANGED <<now, raceStatus, activeJobs, jobs, semRunning, semQueue, proc, cad>>

\* A caller invokes healthCheck() or recoverFromError(operation); the
\* records of the previous call are dropped.
Begin(op) ==
    /\ pass.pc \in {"idle", "returned"}
    /\ pass' = [Idle(pass.browser, pass.isResetting) EXCEPT
                  !.op = op,
                  !.pc = IF op = "recoverFromError" THEN "recoverReset" ELSE "health"]
    /\ UNCHANGED errorCount
    /\ HealthFrame

\* healthCheck after a failed probe: await this.resetBrowser(); return true;
\* the value resetBrowser returned is not read.
HealthAfterReset(resetSuccess) == TRUE

\* Mutant: healthCheck runs whatever resetBrowser returned.
RunsHealthCheckAlways(resetSuccess) == TRUE

\* recoverFromError: if (!resetSuccess) return false; else healthCheck runs.
RunsHealthCheck(resetSuccess) == resetSuccess

\* healthCheck has returned h: a bare healthCheck call is over, and
\* recoverFromError returns false if h is false and true otherwise.
HealthReturns(p, h) ==
    [p EXCEPT !.health = Outcome(h), !.pc = "returned", !.result = Outcome(h)]

\* healthCheck without a browser: initialize() is awaited; true if it
\* returns, false if it throws (the launch failed, or the launch stored a
\* browser and the collector's initialize failed).
HealthInitialize ==
    /\ pass.pc = "health"
    /\ ~pass.browser
    /\ \E ok \in BOOLEAN, launched \in BOOLEAN :
         /\ ok => launched
         /\ pass' = HealthReturns([pass EXCEPT !.init = Outcome(ok),
                                               !.browser = launched], ok)
    /\ UNCHANGED errorCount
    /\ HealthFrame

\* healthCheck with a browser: the probe navigation succeeds (return true)
\* or throws (resetBrowser is called).
HealthProbe ==
    /\ pass.pc = "health"
    /\ pass.browser
    /\ \E ok \in BOOLEAN :
         pass' = IF ok THEN HealthReturns([pass EXCEPT !.probe = "true"], TRUE)
                       ELSE [pass EXCEPT !.probe = "false", !.pc = "healthReset"]
    /\ UNCHANGED errorCount
    /\ HealthFrame

\* What one resetBrowser() call returns and leaves as this.browser: with a
\* reset in progress it waits and returns true; otherwise the new browser
\* is launched and the error counter cleared (true), or the catch block
\* nulls this.browser (false).
ResetOutcomes(p) ==
    IF p.isResetting
    THEN {[ret |-> TRUE, browser |-> p.browser, cleared |-> FALSE]}
    ELSE {[ret |-> ok, browser |-> ok, cleared |-> ok] : ok \in BOOLEAN}

\* resetBrowser() called by healthCheck after a failed probe.
HealthReset ==
    /\ pass.pc = "healthReset"
    /\ \E o \in ResetOutcomes(pass) :
         /\ pass' = HealthReturns([pass EXCEPT !.probeReset = Outcome(o.ret),
                                               !.browser = o.browser],
                                  HealthAfterReset(o.ret))
         /\ errorCount' = IF o.cleared THEN 0 ELSE errorCount
    /\ HealthFrame

\* resetBrowser() called by recoverFromError, and the test of its result.
RecoverReset ==
    /\ pass.pc = "recoverReset"
    /\ \E o \in ResetOutcomes(pass) :
         /\ pass' = IF RunsHealthCheck(o.ret)
                    THEN [pass EXCEPT !.reset = Outcome(o.ret), !.browser = o.browser,
                                      !.pc = "health"]
                    ELSE [pass EXCEPT !.reset = Outcome(o.ret), !.browser = o.browser,
                                      !.pc = "returned", !.result = "false"]
         /\ errorCount' = IF o.cleared THEN 0 ELSE errorCount
    /\ HealthFrame

\* Another operation's resetBrowser sets isResetting and closes the browser.
OtherResetBegins ==
    /\ ~pass.isResetting
    /\ pass.pc \in {"idle", "returned", "health", "healthReset", "recoverReset"}
    /\ \E closed \in BOOLEAN :
         pass' = [pass EXCEPT !.isResetting = TRUE,
                              !.browser = IF closed THEN FALSE ELSE @]
    /\ UNCHANGED errorCount
    /\ HealthFrame

\* Another operation's resetBrowser is over: a browser or none, and
\* isResetting = false.
OtherResetEnds ==
    /\ pass.isResetting
    /\ \E ok \in BOOLEAN :
         pass' = [pass EXCEPT !.isResetting = FALSE, !.browser = ok]
    /\ UNCHANGED errorCount
    /\ HealthFrame

NextHealth ==
    \/ Begin("healthCheck")
    \/ Begin("recoverFromError")
    \/ HealthInitialize
    \/ HealthProbe
    \/ HealthReset
    \/ RecoverReset
    \/ OtherResetBegins
    \/ OtherResetEnds

SpecHealth == InitHealth /\ [][NextHealth]_vars

HealthReturned == pass.op = "healthCheck" /\ pass.pc = "returned"

\* C21: a healthCheck whose probe failed returns true exactly when the
\* reset it called succeeded and false when that reset failed; without a
\* browser it returns true exactly when initialize() succeeded.
C21_HealthReportsResetOrInit ==
    HealthReturned =>
        /\ pass.probe = "false" => pass.result = pass.probeReset
        /\ pass.init # "none" => pass.result = pass.init

RecoverReturned == pass.op = "recoverFromError" /\ pass.pc = "returned"

\* C22: recoverFromError resets first and checks health second; it returns
\* true exactly when both returned true, a failed reset ends it with false
\* before healthCheck is run, and it always returns a boolean.
C22_RecoverNeedsBoth ==
    /\ pass.op = "recoverFromError" /\ pass.health # "none" => pass.reset = "true"
    /\ RecoverReturned =>
        /\ pass.reset # "none"
        /\ pass.result \in {"true", "false"}
        /\ pass.result = "true" <=> (pass.reset = "true" /\ pass.health = "true")
        /\ pass.reset = "false" => pass.health = "none" /\ pass.probe = "none" /\ pass.init = "none"

C22_Witness ==
    /\ RecoverReturned
    /\ pass.reset = "true"
    /\ pass.health = "false"

-----------------------------------------------------------------------------
(* SpecPool: the context pool of OddsCollector under concurrent callers    *)

MAX_CONTEXTS == 5  \* private readonly MAX_CONTEXTS = 5

MaxCallers == 6    \* collectOddsForBetType calls in flight at once

Callers == 1..MaxCallers

\* After OddsCollector.initialize(browser): this.contextPool = [].  The pool
\* is kept as the number of items with inUse false and with inUse true.
InitPool ==
    /\ pass = [idle |-> 0, inUse |-> 0, ops |-> [c \in Callers |-> "out"]]
    /\ errorCount = 0
    /\ now = 0
    /\ raceStatus = <<>>
    /\ activeJobs = <<>>
    /\ jobs = <<>>
    /\ semRunning = 0
    /\ semQueue = <<>>
    /\ proc = <<>>
    /\ cad = <<>>

PoolFrame == UNCHANGED <<now, raceStatus, activeJobs, jobs, semRunning, semQueue, proc, cad, errorCount>>

PoolLength(p) == p.idle + p.inUse

\* this.contextPool.length < this.MAX_CONTEXTS (the browser is present).
BelowCap(p) == PoolLength(p) < MAX_CONTEXTS

\* getContext() up to its first await, entered from collectOddsForBetType
\* or again after the 5 s wait: an item with inUse false is taken; else,
\* below the cap, browser.newContext() is started; else the caller waits.
GetContext(c) ==
    /\ pass.ops[c] \in {"out", "waiting"}
    /\ pass' = IF pass.idle > 0
               THEN [pass EXCEPT !.idle = @ - 1, !.inUse = @ + 1, !.ops[c] = "holding"]
               ELSE IF BelowCap(pass)
                    THEN [pass EXCEPT !.ops[c] = "creating"]
                    ELSE [pass EXCEPT !.ops[c] = "waiting"]
    /\ PoolFrame

\* browser.newContext() has settled: the item is pushed with inUse true,
\* or the error is rethrown to collectOddsForBetType.
NewContext(c) ==
    /\ pass.ops[c] = "creating"
    /\ \E ok \in BOOLEAN :
         pass' = IF ok THEN [pass EXCEPT !.inUse = @ + 1, !.ops[c] = "holding"]
                       ELSE [pass EXCEPT !.ops[c] = "out"]
    /\ PoolFrame

\* collectOddsForBetType ends: releaseContext marks the item unused, or on
\* an error the context is closed and spliced out of the pool.
ReleaseContext(c) ==
    /\ pass.ops[c] = "holding"
    /\ \E ok \in BOOLEAN :
         pass' = IF ok THEN [pass EXCEPT !.inUse = @ - 1, !.idle = @ + 1, !.ops[c] = "out"]
                       ELSE [pass EXCEPT !.inUse = @ - 1, !.ops[c] = "out"]
    /\ PoolFrame

\* cleanupUnusedContexts (every minute): unused items older than 10 minutes
\* are closed and dropped.
CleanupUnusedContexts ==
    /\ pass.idle > 0
    /\ \E k \in 1..pass.idle : pass' = [pass EXCEPT !.idle = @ - k]
    /\ PoolFrame

NextPool ==
    \/ \E c \in Callers :
        \/ GetContext(c)
        \/ NewContext(c)
        \/ ReleaseContext(c)
    \/ CleanupUnusedContexts

SpecPool == InitPool /\ [][NextPool]_vars

\* C23: under every interleaving of concurrent getContext calls the pool
\* holds at most MAX_CONTEXTS contexts.
C23_PoolWithinCap == PoolLength(pass) <= MAX_CONTEXTS

-----------------------------------------------------------------------------
(* SpecStatus: every writer of races.status, in any order                  *)

MaxRegs == 3   \* registerRace calls for one race between find and insert

\* An empty races table; pass.found[r] counts the registerRace calls for r
\* that found no row and have not inserted yet, pass.rejected[r] tells
\* whether an insert for r was refused by the primary key.
InitStatus ==
    /\ raceStatus = [r \in Races |-> "absent"]
    /\ pass = [found |-> [r \in Races |-> 0], rejected |-> [r \in Races |-> FALSE]]
    /\ errorCount = 0
    /\ now = 0
    /\ activeJobs = <<>>
    /\ jobs = <<>>
    /\ semRunning = 0
    /\ semQueue = <<>>
    /\ proc = <<>>
    /\ cad = <<>>

StatusFrame == UNCHANGED <<now, activeJobs, jobs, semRunning, semQueue, proc, cad, errorCount>>

\* Mutant: the insert of registerRace replaces the row it collides with.
InsertRaceReplacing(status) == "upcoming"

\* db.insert(races).values({..., status: "upcoming"}) on the table whose
\* primary key is the race id: a stored row is left as it is (the insert
\* is refused).
InsertRace(status) == IF status = "absent" THEN "upcoming" ELSE status

\* registerRace up to its insert: findFirst by id; with a row found the
\* call is over, otherwise the insert is awaited next.
RegisterFind(r) ==
    /\ raceStatus[r] = "absent"
    /\ pass.found[r] < MaxRegs
    /\ pass' = [pass EXCEPT !.found[r] = @ + 1]
    /\ UNCHANGED raceStatus
    /\ StatusFrame

\* The insert of a registerRace that found no row.
RegisterInsert(r) ==
    /\ pass.found[r] > 0
    /\ raceStatus' = [raceStatus EXCEPT ![r] = InsertRace(@)]
    /\ pass' = [pass EXCEPT !.found[r] = @ - 1,
                            !.rejected[r] = raceStatus[r] # "absent"]
    /\ StatusFrame

\* update races set status = 'done' where id = r, as issued by
\* getTodayGradeRaces for a race shown as started.
StartedStatusUpdate(r) ==
    /\ raceStatus[r] = "upcoming"
    /\ raceStatus' = [raceStatus EXCEPT ![r] = "done"]
    /\ UNCHANGED pass
    /\ StatusFrame

\* The same update issued by the retiring firing of a job, after it has
\* read the race as 'upcoming'.
RetireStatusUpdate(r) ==
    /\ raceStatus[r] = "upcoming"
    /\ raceStatus' = [raceStatus EXCEPT ![r] = "done"]
    /\ UNCHANGED pass
    /\ StatusFrame

\* The same update issued by the terminal pass of collectOdds (also run
\* by the initial collection of a scheduled or restored race).
TerminalStatusUpdate(r) ==
    /\ raceStatus[r] = "upcoming"
    /\ raceStatus' = [raceStatus EXCEPT ![r] = "done"]
    /\ UNCHANGED pass
    /\ StatusFrame

NextStatus ==
    \E r \in Races :
        \/ RegisterFind(r)
        \/ RegisterInsert(r)
        \/ StartedStatusUpdate(r)
        \/ RetireStatusUpdate(r)
        \/ TerminalStatusUpdate(r)

SpecStatus == InitStatus /\ [][NextStatus]_vars

\* C24: a race that is 'done' stays 'done', and a race becomes 'upcoming'
\* only by the insert of a row that was not stored; no stored row is
\* changed by registerRace.
C24_StatusOneWay ==
    [][\A r \in Races :
          /\ raceStatus[r] = "done" => raceStatus'[r] = "done"
          /\ raceStatus[r] = "upcoming" => raceStatus'[r] \in {"upcoming", "done"}
          /\ pass'.found[r] < pass.found[r] /\ raceStatus[r] # "absent"
                => raceStatus'[r] = raceStatus[r]]_vars

C24_Witness == \E r \in Races : raceStatus[r] = "done" /\ pass.rejected[r]

-----------------------------------------------------------------------------
(* SpecRaceId: the race id as built by getTodayGradeRaces and as taken     *)
(* apart by navigateToRacePage; strings are sequences of decimal digits    *)

Years == {2024, 2025}

\* The ten racecourses of the venue map (romanised) and two names the map
\* does not hold.
MappedVenues == {"Sapporo", "Hakodate", "Fukushima", "Niigata", "Tokyo",
                 "Nakayama", "Chukyo", "Kyoto", "Hanshin", "Kokura"}

VenueNames == MappedVenues \cup {"Monbetsu", "Oi"}

Meetings == {1, 10}

MeetingDays == {1, 12}

RaceNumbers == {1, 11}

RaceKeys == [year : Years, venue : VenueNames, kai : Meetings,
             nichi : MeetingDays, raceNumber : RaceNumbers]

RECURSIVE NumberToString(_)
\* n.toString() for a natural number.
NumberToString(n) ==
    IF n < 10 THEN <<n>> ELSE Append(NumberToString(n \div 10), n % 10)

RECURSIVE PadStart(_, _)
\* str.padStart(len, '0')
PadStart(str, len) ==
    IF Len(str) >= len THEN str ELSE PadStart(<<0>> \o str, len)

\* getVenueCode: the code of the venue map, "00" for any other name.
getVenueCode(venue) ==
    CASE venue = "Sapporo"   -> <<0, 1>>
      [] venue = "Hakodate"  -> <<0, 2>>
      [] venue = "Fukushima" -> <<0, 3>>
      [] venue = "Niigata"   -> <<0, 4>>
      [] venue = "Tokyo"     -> <<0, 5>>
      [] venue = "Nakayama"  -> <<0, 6>>
      [] venue = "Chukyo"    -> <<0, 7>>
      [] venue = "Kyoto"     -> <<0, 8>>
      [] venue = "Hanshin"   -> <<0, 9>>
      [] venue = "Kokura"    -> <<1, 0>>
      [] OTHER               -> <<0, 0>>

\* placeMapping[code]; undefined for a code that is not a key.
placeMapping(code) ==
    CASE code = <<0, 1>> -> "Sapporo"
      [] code = <<0, 2>> -> "Hakodate"
      [] code = <<0, 3>> -> "Fukushima"
      [] code = <<0, 4>> -> "Niigata"
      [] code = <<0, 5>> -> "Tokyo"
      [] code = <<0, 6>> -> "Nakayama"
      [] code = <<0, 7>> -> "Chukyo"
      [] code = <<0, 8>> -> "Kyoto"
      [] code = <<0, 9>> -> "Hanshin"
      [] code = <<1, 0>> -> "Kokura"
      [] OTHER           -> "undefined"

RECURSIVE StripZeros(_)
\* The digits of the number parseInt reads from a digit string, which are
\* also the digits toString() gives back for it.
StripZeros(str) ==
    IF Len(str) > 1 /\ Head(str) = 0 THEN StripZeros(Tail(str)) ELSE str

RECURSIVE ParseInt(_)
\* parseInt of a short digit string, as a number.
ParseInt(str) ==
    IF str = <<>> THEN 0 ELSE 10 * ParseInt(SubSeq(str, 1, Len(str) - 1)) + str[Len(str)]

\* str.slice(from, to) with 0-based positions.
Slice(str, from, to) ==
    SubSeq(str, from + 1, IF to < Len(str) THEN to ELSE Len(str))

\* parseInt(`${year}${venueCode}${kai.padStart(2, '0')}${nichi.padStart(2,
\* '0')}${raceNumber.toString().padStart(2, '0')}`), kept as its digits.
RaceId(k) ==
    StripZeros(NumberToString(k.year) \o getVenueCode(k.venue)
               \o PadStart(NumberToString(k.kai), 2)
               \o PadStart(NumberToString(k.nichi), 2)
               \o PadStart(NumberToString(k.raceNumber), 2))

\* navigateToRacePage: the fields read from raceId.toString() by position.
DecodeRaceId(raceIdStr) ==
    [venue      |-> placeMapping(Slice(raceIdStr, 4, 6)),
     kai        |-> ParseInt(Slice(raceIdStr, 6, 8)),
     nichi      |-> ParseInt(Slice(raceIdStr, 8, 10)),
     raceNumber |-> ParseInt(Slice(raceIdStr, 10, 12))]

\* Two races as read from the race list, not yet encoded.
InitRaceId ==
    /\ pass \in [a : RaceKeys, b : RaceKeys, ids : {<<>>}, decoded : {<<>>}]
    /\ errorCount = 0
    /\ now = 0
    /\ raceStatus = <<>>
    /\ activeJobs = <<>>
    /\ jobs = <<>>
    /\ semRunning = 0
    /\ semQueue = <<>>
    /\ proc = <<>>
    /\ cad = <<>>

RaceIdFrame == UNCHANGED <<now, raceStatus, activeJobs, jobs, semRunning, semQueue, proc, cad, errorCount>>

\* getTodayGradeRaces builds the id of both races.
EncodeRaces ==
    /\ pass.ids = <<>>
    /\ pass' = [pass EXCEPT !.ids = <<RaceId(pass.a), RaceId(pass.b)>>]
    /\ RaceIdFrame

\* navigateToRacePage takes the id of the first race apart.
NavigateToRacePage ==
    /\ pass.ids # <<>>
    /\ pass.decoded = <<>>
    /\ pass' = [pass EXCEPT !.decoded = <<DecodeRaceId(pass.ids[1])>>]
    /\ RaceIdFrame

NextRaceId == EncodeRaces \/ NavigateToRacePage

SpecRaceId == InitRaceId /\ [][NextRaceId]_vars

FieldsOf(k) == [venue |-> k.venue, kai |-> k.kai, nichi |-> k.nichi,
                raceNumber |-> k.raceNumber]

\* C25 as stated: distinct (year, venue, meeting, day, race number) give
\* distinct ids, and decoding an id by digit positions returns the venue,
\* meeting, day and race number that were encoded.
C25_IdUniqueAndDecodable ==
    /\ pass.ids # <<>> /\ pass.a # pass.b => pass.ids[1] # pass.ids[2]
    /\ pass.decoded # <<>> => pass.decoded[1] = FieldsOf(pass.a)

-----------------------------------------------------------------------------
(* SpecRetry: withDbRetry around one database operation                    *)

RETRY_DELAY == 5000    \* private readonly RETRY_DELAY = 5000 (ms)

NumValues == 2         \* distinct results the operation can return

NumErrors == 4         \* distinct errors the operation can throw

Returned == {[ok |-> TRUE, v |-> v] : v \in 1..NumValues}

Thrown == {[ok |-> FALSE, v |-> e] : e \in 1..NumErrors}

MaxRetriesExceeded == [ok |-> FALSE, v |-> 0]

\* withDbRetry(operation) has been called: i = 0 and nothing attempted.
\* pass.log holds the outcome of every invocation of the operation and
\* pass.at the time of each.
InitRetry ==
    /\ pass = [i |-> 0, pc |-> "try", log |-> <<>>, at |-> <<>>, result |-> <<>>]
    /\ now = 0
    /\ errorCount = 0
    /\ raceStatus = <<>>
    /\ activeJobs = <<>>
    /\ jobs = <<>>
    /\ semRunning = 0
    /\ semQueue = <<>>
    /\ proc = <<>>
    /\ cad = <<>>

RetryFrame == UNCHANGED <<raceStatus, activeJobs, jobs, semRunning, semQueue, proc, cad, errorCount>>

\* Mutant: no attempt is the last one.
LastAttemptNever(i) == FALSE

\* if (i === this.MAX_RETRIES - 1) throw error;
LastAttempt(i) == i = MAX_RETRIES - 1

\* One pass of the loop body, with the loop test before it: the operation
\* is invoked; its value is returned, or its error is rethrown on the last
\* attempt, or the delay is started.  With the loop test false the helper
\* throws 'Max retries exceeded'.
Attempt ==
    /\ pass.pc = "try"
    /\ IF pass.i < MAX_RETRIES
       THEN \E o \in Returned \cup Thrown :
              pass' = [pass EXCEPT
                         !.log = Append(@, o),
                         !.at = Append(@, now),
                         !.pc = IF o.ok THEN "returned"
                                ELSE IF LastAttempt(pass.i) THEN "thrown" ELSE "delay",
                         !.result = IF o.ok \/ LastAttempt(pass.i) THEN <<o>> ELSE @]
       ELSE pass' = [pass EXCEPT !.pc = "thrown", !.result = <<MaxRetriesExceeded>>]
    /\ UNCHANGED now
    /\ RetryFrame

\* The setTimeout of RETRY_DELAY has fired; i++.
Delay ==
    /\ pass.pc = "delay"
    /\ pass' = [pass EXCEPT !.i = @ + 1, !.pc = "try"]
    /\ now' = now + RETRY_DELAY
    /\ RetryFrame

NextRetry == Attempt \/ Delay

SpecRetry == InitRetry /\ [][NextRetry]_vars

\* C26: the operation is invoked at most MAX_RETRIES = 3 times and never
\* after a success; consecutive attempts are RETRY_DELAY = 5 s apart; the
\* first success is the value returned, and the failure of the third
\* attempt is the error thrown.
C26_BoundedRetry ==
    /\ Len(pass.log) <= MAX_RETRIES
    /\ \A k \in 1..(Len(pass.log) - 1) :
          /\ ~pass.log[k].ok
          /\ pass.at[k + 1] - pass.at[k] = RETRY_DELAY
    /\ pass.pc = "returned" =>
          /\ pass.log[Len(pass.log)].ok
          /\ pass.result = <<pass.log[Len(pass.log)]>>
    /\ pass.pc = "thrown" =>
          /\ Len(pass.log) = MAX_RETRIES
          /\ pass.result = <<pass.log[MAX_RETRIES]>>
          /\ \A k \in 1..MAX_RETRIES : ~pass.log[k].ok

C26_Witness ==
    /\ pass.pc = "thrown"
    /\ Len(pass.log) = 3
    /\ pass.log[1] # pass.log[3]
    /\ now = 2 * RETRY_DELAY

-----------------------------------------------------------------------------
(* SpecRoute: which save method a scrape result is handed to               *)

Collectors == {"collectOdds", "startPeriodicCollection"}

\* The update method of each combination bet-type.
updateMethod(betType) ==
    CASE betType = "wakuren" -> "updateWakurenOdds"
      [] betType = "umaren"  -> "updateUmarenOdds"
      [] betType = "wide"    -> "updateWideOdds"
      [] betType = "umatan"  -> "updateUmatanOdds"
      [] betType = "fuku3"   -> "updateFuku3Odds"
      [] betType = "tan3"    -> "updateTan3Odds"

\* collectOdds (both passes): tanpuku goes to handleTanpukuOdds, which
\* ends in saveOddsHistory; every other bet-type goes to handleOtherOdds,
\* which looks the method up by bet-type.
RouteCollectOdds(betType) ==
    IF betType = "tanpuku" THEN "saveOddsHistory" ELSE updateMethod(betType)

\* startPeriodicCollection: an if-chain over wakuren, umaren, wide and
\* umatan, with saveOddsHistory as its final else.
RoutePeriodic(betType) ==
    CASE betType = "wakuren" -> "updateWakurenOdds"
      [] betType = "umaren"  -> "updateUmarenOdds"
      [] betType = "wide"    -> "updateWideOdds"
      [] betType = "umatan"  -> "updateUmatanOdds"
      [] OTHER               -> "saveOddsHistory"

Route(collector, betType) ==
    IF collector = "collectOdds" THEN RouteCollectOdds(betType) ELSE RoutePeriodic(betType)

\* One of the two collectors starts its loop over the seven bet-types;
\* pass.routed lists, per non-empty result, the bet-type and the method
\* it was handed to.
InitRoute ==
    /\ pass \in [collector : Collectors, next : {1}, routed : {<<>>}]
    /\ now = 0
    /\ errorCount = 0
    /\ raceStatus = <<>>
    /\ activeJobs = <<>>
    /\ jobs = <<>>
    /\ semRunning = 0
    /\ semQueue = <<>>
    /\ proc = <<>>
    /\ cad = <<>>

RouteFrame == UNCHANGED <<now, raceStatus, activeJobs, jobs, semRunning, semQueue, proc, cad, errorCount>>

\* The scrape of the next bet-type gave nothing, or threw: nothing is saved.
ScrapeEmpty ==
    /\ pass.next <= Len(betTypes)
    /\ pass' = [pass EXCEPT !.next = @ + 1]
    /\ RouteFrame

\* The scrape of the next bet-type gave a non-empty result, which is
\* handed to a save method.
ScrapeAndRoute ==
    /\ pass.next <= Len(betTypes)
    /\ LET betType == betTypes[pass.next]
       IN  pass' = [pass EXCEPT
                      !.next = @ + 1,
                      !.routed = Append(@, [betType |-> betType,
                                            method |-> Route(pass.collector, betType)])]
    /\ RouteFrame

NextRoute == ScrapeEmpty \/ ScrapeAndRoute

SpecRoute == InitRoute /\ [][NextRoute]_vars

\* C27: a non-empty win/place result goes to saveOddsHistory, a non-empty
\* result of a combination bet-type goes to the update method of that
\* bet-type and never to saveOddsHistory.
C27_RoutedByBetType ==
    \A k \in DOMAIN pass.routed :
        LET e == pass.routed[k]
        IN  IF e.betType = "tanpuku"
            THEN e.method = "saveOddsHistory"
            ELSE e.method = updateMethod(e.betType)

-----------------------------------------------------------------------------
(* SpecContexts: the context pool item by item, with the idle sweep, the   *)
(* error path of collectOddsForBetType and a browser reset                 *)

MaxContextIds == 3   \* browsing contexts ever created
MaxScrapers == 2     \* collectOddsForBetType calls in flight at once

ContextIds == 1..MaxContextIds

Scrapers == 1..MaxScrapers

NoSweep == [pc |-> "idle", i |-> 0, newPool |-> <<>>, live |-> TRUE, arr |-> <<>>]

NoScrape == [pc |-> "out", ctx |-> 0, idx |-> 0]

\* After OddsCollector.initialize(browser): an empty pool.  pass.pool is
\* the array this.contextPool, pass.inUse the flag of each item, pass.old
\* the items whose lastUsed is more than 10 minutes ago, pass.closedBy who
\* has called close() on a context, pass.browser the phase of a reset.
InitContexts ==
    /\ pass = [pool |-> <<>>,
               inUse |-> [id \in ContextIds |-> FALSE],
               old |-> {},
               closedBy |-> [id \in ContextIds |-> {}],
               created |-> 0,
               ops |-> [c \in Scrapers |-> NoScrape],
               sweep |-> NoSweep,
               browser |-> "up"]
    /\ errorCount = 0
    /\ now = 0
    /\ raceStatus = <<>>
    /\ activeJobs = <<>>
    /\ jobs = <<>>
    /\ semRunning = 0
    /\ semQueue = <<>>
    /\ proc = <<>>
    /\ cad = <<>>

ContextsFrame == UNCHANGED <<now, raceStatus, activeJobs, jobs, semRunning, semQueue, proc, cad, errorCount>>

IndexIn(pool, id) ==
    IF \E k \in DOMAIN pool : pool[k] = id
    THEN CHOOSE k \in DOMAIN pool : pool[k] = id /\ \A j \in 1..(k - 1) : pool[j] # id
    ELSE 0

\* Mutant: every item counts as unused.
IsIdleAlways(p, id) == TRUE

\* !item.inUse
IsIdle(p, id) == ~p.inUse[id]

\* releaseContext(context): the item of the pool that holds the context is
\* marked unused and its lastUsed set to now; no such item, no effect.
Released(p, id) ==
    IF IndexIn(p.pool, id) # 0
    THEN [p EXCEPT !.inUse[id] = FALSE, !.old = @ \ {id}]
    ELSE p

\* this.contextPool.splice(index, 1), index counted from 1 here.
Splice(pool, index) ==
    IF index \in DOMAIN pool
    THEN SubSeq(pool, 1, index - 1) \o SubSeq(pool, index + 1, Len(pool))
    ELSE pool

\* The array the for-of loop of the sweep walks: this.contextPool itself as
\* long as no reset has replaced it, the replaced array afterwards.
SweptArray(p) == IF p.sweep.live THEN p.pool ELSE p.sweep.arr

RECURSIVE SweepRun(_, _, _)
\* cleanupUnusedContexts from item i on, up to its next await: an unused
\* item older than the timeout is closed (the sweep is suspended on the
\* close), any other item goes to newPool; past the last item
\* this.contextPool = newPool.
SweepRun(p, i, newPool) ==
    IF i > Len(SweptArray(p))
    THEN [p EXCEPT !.pool = newPool, !.sweep = NoSweep]
    ELSE LET id == SweptArray(p)[i]
         IN  IF IsIdle(p, id) /\ id \in p.old
             THEN [p EXCEPT !.closedBy[id] = @ \cup {"sweep"},
                            !.sweep = [@ EXCEPT !.pc = "closing", !.i = i + 1,
                                                !.newPool = newPool]]
             ELSE SweepRun(p, i + 1, Append(newPool, id))

\* The pool array is replaced by an empty one (cleanup, initialize): a
\* sweep in progress keeps walking the array it started on.
PoolReplaced(p) ==
    [p EXCEPT !.pool = <<>>,
              !.sweep = IF @.pc = "closing" /\ @.live
                        THEN [@ EXCEPT !.live = FALSE, !.arr = p.pool]
                        ELSE @]

\* collectOddsForBetType up to the first await of getContext (or getContext
\* again after its 5 s wait): the first unused item is taken; else, below
\* the cap and with a browser, browser.newContext() is started; else the
\* caller waits.
AcquireContext(c) ==
    /\ pass.ops[c].pc \in {"out", "waiting"}
    /\ pass.ops[c].pc = "out" => pass.browser # "cleaned"
    /\ LET idle == {k \in DOMAIN pass.pool : IsIdle(pass, pass.pool[k])}
       IN  IF idle # {}
           THEN LET k == CHOOSE k \in idle : \A j \in idle : k <= j
                    id == pass.pool[k]
                IN  pass' = [pass EXCEPT !.inUse[id] = TRUE, !.old = @ \ {id},
                                         !.ops[c] = [pc |-> "holding", ctx |-> id, idx |-> 0]]
           ELSE IF Len(pass.pool) < MAX_CONTEXTS /\ pass.browser # "cleaned"
           THEN /\ pass.created
                     + Cardinality({d \in Scrapers : pass.ops[d].pc = "creating"})
                       < MaxContextIds
                /\ pass' = [pass EXCEPT !.ops[c].pc = "creating"]
           ELSE pass' = [pass EXCEPT !.ops[c].pc = "waiting"]
    /\ ContextsFrame

\* browser.newContext() has settled: the new item is pushed with inUse
\* true, or the error is rethrown (no context to clean up).
ContextCreated(c) ==
    /\ pass.ops[c].pc = "creating"
    /\ \E ok \in BOOLEAN :
         /\ ok => pass.browser = "up"
         /\ pass' = IF ok
                    THEN LET id == pass.created + 1
                         IN  [pass EXCEPT !.created = id,
                                          !.pool = Append(@, id),
                                          !.inUse[id] = TRUE,
                                          !.ops[c] = [pc |-> "holding", ctx |-> id, idx |-> 0]]
                    ELSE [pass EXCEPT !.ops[c] = NoScrape]
    /\ ContextsFrame

\* The scrape returns: the page is closed and the finally block releases
\* the context.
ScrapeSucceeds(c) ==
    /\ pass.ops[c].pc = "holding"
    /\ pass' = [Released(pass, pass.ops[c].ctx) EXCEPT !.ops[c] = NoScrape]
    /\ ContextsFrame

\* The scrape throws: findIndex looks the context up and its close() is
\* awaited; a context that is not in the pool is only released.
ScrapeFails(c) ==
    /\ pass.ops[c].pc = "holding"
    /\ LET id == pass.ops[c].ctx
           index == IndexIn(pass.pool, id)
       IN  pass' = IF index # 0
                   THEN [pass EXCEPT !.closedBy[id] = @ \cup {"failure"},
                                     !.ops[c] = [pc |-> "closing", ctx |-> id, idx |-> index]]
                   ELSE [pass EXCEPT !.ops[c] = NoScrape]
    /\ ContextsFrame

\* The close() of the error path has settled: splice(index, 1) with the
\* index found before the await, then the finally block releases the
\* context.
FailureClosed(c) ==
    /\ pass.ops[c].pc = "closing"
    /\ LET p == [pass EXCEPT !.pool = Splice(@, pass.ops[c].idx)]
       IN  pass' = [Released(p, pass.ops[c].ctx) EXCEPT !.ops[c] = NoScrape]
    /\ ContextsFrame

\* Ten minutes pass over an unused item.
ContextAges(id) ==
    /\ IndexIn(pass.pool, id) # 0
    /\ ~pass.inUse[id]
    /\ id \notin pass.old
    /\ pass' = [pass EXCEPT !.old = @ \cup {id}]
    /\ ContextsFrame

\* The timer of cleanupUnusedContexts fires.
SweepBegins ==
    /\ pass.sweep.pc = "idle"
    /\ pass' = SweepRun(pass, 1, <<>>)
    /\ ContextsFrame

\* The close() the sweep was suspended on has settled.
SweepResumes ==
    /\ pass.sweep.pc = "closing"
    /\ pass' = SweepRun(pass, pass.sweep.i, pass.sweep.newPool)
    /\ ContextsFrame

\* resetBrowser: browser.close() has settled, which closes every context
\* of the browser.
ResetClosesBrowser ==
    /\ pass.browser = "up"
    /\ pass.created > 0
    /\ pass' = [pass EXCEPT
                  !.browser = "closed",
                  !.closedBy = [id \in ContextIds |->
                                   IF id <= pass.created THEN @[id] \cup {"reset"} ELSE @[id]]]
    /\ ContextsFrame

\* resetBrowser: collector.cleanup() closes the items of the pool, then
\* this.contextPool = [] and this.browser = null.
ResetCleansPool ==
    /\ pass.browser = "closed"
    /\ pass' = [PoolReplaced(pass) EXCEPT !.browser = "cleaned"]
    /\ ContextsFrame

\* resetBrowser: collector.initialize(newBrowser) installs the browser and
\* sets this.contextPool = [].
ResetInstallsBrowser ==
    /\ pass.browser = "cleaned"
    /\ pass' = [PoolReplaced(pass) EXCEPT !.browser = "up"]
    /\ ContextsFrame

NextContexts ==
    \/ \E c \in Scrapers :
        \/ AcquireContext(c)
        \/ ContextCreated(c)
        \/ ScrapeSucceeds(c)
        \/ ScrapeFails(c)
        \/ FailureClosed(c)
    \/ \E id \in ContextIds : ContextAges(id)
    \/ SweepBegins
    \/ SweepResumes
    \/ ResetClosesBrowser
    \/ ResetCleansPool
    \/ ResetInstallsBrowser

SpecContexts == InitContexts /\ [][NextContexts]_vars

Holding(c) == pass.ops[c].pc \in {"holding", "closing"}

\* C31: a context on which the sweep has called close() (closing or closed)
\* is never in the hands of a caller; the sweep picks only unused items, so
\* this covers both "never closes a context in use" and "never handed out".
C31_SweepClosedNeverHeld ==
    \A c \in Scrapers : Holding(c) => "sweep" \notin pass.closedBy[pass.ops[c].ctx]

\* C32: the browser is never closed by a reset while a scrape holds one of
\* its contexts.
C32_ResetWaitsForScrapes ==
    [][(pass.browser = "up" /\ pass'.browser = "closed")
          => \A c \in Scrapers : ~Holding(c)]_vars

\* C34: when the error path of a failed scrape has finished, the context
\* the scrape was using is no longer in the pool and every other entry of
\* the pool is still there.
C34_FailureRemovesExactlyItsContext ==
    [][\A c \in Scrapers :
          (pass.ops[c].pc = "closing" /\ pass'.ops[c].pc = "out")
             => /\ IndexIn(pass'.pool, pass.ops[c].ctx) = 0
                /\ \A k \in DOMAIN pass.pool :
                      pass.pool[k] # pass.ops[c].ctx => IndexIn(pass'.pool, pass.pool[k]) # 0]_vars

\* C35: when the sweep finishes, every item that was in the pool and that
\* the sweep has not closed is still in the pool.
C35_SweepRemovesOnlyWhatItClosed ==
    [][(pass.sweep.pc = "closing" /\ pass'.sweep.pc = "idle")
          => \A k \in DOMAIN pass.pool :
                "sweep" \notin pass.closedBy[pass.pool[k]]
                   => IndexIn(pass'.pool, pass.pool[k]) # 0]_vars

\* C36: no context is held by two callers at once, whatever the
\* interleaving of acquisitions, releases, failures, sweeps and resets.
C36_NoContextHeldTwice ==
    \A c, d \in Scrapers :
       (c # d /\ Holding(c) /\ Holding(d)) => pass.ops[c].ctx # pass.ops[d].ctx

\* Both callers hold a context, each the one the other had created, while
\* the sweep is suspended on a close.
C36_Witness ==
    /\ pass.ops[1].pc = "holding" /\ pass.ops[1].ctx = 2
    /\ pass.ops[2].pc = "holding" /\ pass.ops[2].ctx = 1
    /\ pass.sweep.pc = "closing"

-----------------------------------------------------------------------------
(* SpecZone: the start time of a grade race and its collection start, as   *)
(* Date arithmetic in the time zone of the process.  Instants are minutes  *)
(* since the epoch; a zone is its offset from UTC in minutes.              *)

JST_OFFSET == 540

MinutesPerDay == 24 * 60

\* Zones of the process: UTC-8, UTC, JST.
ZoneOffsets == {-480, 0, JST_OFFSET}

\* Calendar days (since the epoch) of the race card, and post times on it.
RaceDays == 3..4

RaceHours == 10..16

RaceMinutes == {0, 40}

\* date.setHours(h, m, 0, 0): the local calendar day of the instant is
\* kept, the local clock time replaced.
SetHours(t, tz, h, m) ==
    ((t + tz) \div MinutesPerDay) * MinutesPerDay + h * 60 + m - tz

\* date.setDate(date.getDate() - 1): one local day back, same local clock.
SetPreviousDate(t, tz) == t - MinutesPerDay

\* getTodayGradeRaces: the post time "h時m分" of the card is set on baseDate
\* with setHours, then 9 hours are subtracted.
raceTimeUTC(baseDate, tz, h, m) == SetHours(baseDate, tz, h, m) - JST_OFFSET

\* scheduleOddsCollection: startTime plus 9 hours, one day back with
\* setDate, 09:00 with setHours, minus 9 hours.
collectionStartTimeUTC(startTime, tz) ==
    SetHours(SetPreviousDate(startTime + JST_OFFSET, tz), tz, 9, 0) - JST_OFFSET

\* 09:00 JST on the JST calendar day before the JST day of the instant.
NineJstTheDayBefore(startTime) ==
    (((startTime + JST_OFFSET) \div MinutesPerDay) - 1) * MinutesPerDay + 9 * 60 - JST_OFFSET

\* A grade race read off the card, in a process of zone tz: baseDate is
\* `new Date()` at 08:55 local time of the card's day.
InitZone ==
    /\ \E tz \in ZoneOffsets, d \in RaceDays, h \in RaceHours, m \in RaceMinutes :
         pass = [pc |-> "scraped", tz |-> tz,
                 baseDate |-> d * MinutesPerDay + 8 * 60 + 55 - tz,
                 day |-> d, hours |-> h, minutes |-> m,
                 startTime |-> 0, collectionStart |-> 0, nowUTC |-> 0, armed |-> FALSE]
    /\ errorCount = 0
    /\ now = 0
    /\ raceStatus = <<>>
    /\ activeJobs = <<>>
    /\ jobs = <<>>
    /\ semRunning = 0
    /\ semQueue = <<>>
    /\ proc = <<>>
    /\ cad = <<>>

\* getTodayGradeRaces computes the start time that is stored.
StoreGradeRace ==
    /\ pass.pc = "scraped"
    /\ pass' = [pass EXCEPT !.pc = "stored",
                            !.startTime = raceTimeUTC(pass.baseDate, pass.tz,
                                                      pass.hours, pass.minutes)]
    /\ UNCHANGED <<now, raceStatus, activeJobs, jobs, semRunning, semQueue, proc, cad, errorCount>>

\* scheduleOddsCollection computes the collection start of the grade race.
ScheduleGradeRace ==
    /\ pass.pc = "stored"
    /\ pass' = [pass EXCEPT !.pc = "scheduled",
                            !.collectionStart = collectionStartTimeUTC(pass.startTime, pass.tz)]
    /\ UNCHANGED <<now, raceStatus, activeJobs, jobs, semRunning, semQueue, proc, cad, errorCount>>

\* The job fires just before or at the collection start: it only waits if
\* nowUTC < collectionStartTimeUTC, a comparison of instants.
GradeJobFires ==
    /\ pass.pc = "scheduled"
    /\ \E n \in {pass.collectionStart - 1, pass.collectionStart} :
         pass' = [pass EXCEPT !.pc = "fired", !.nowUTC = n,
                              !.armed = n < pass.collectionStart]
    /\ UNCHANGED <<now, raceStatus, activeJobs, jobs, semRunning, semQueue, proc, cad, errorCount>>

NextZone == StoreGradeRace \/ ScheduleGradeRace \/ GradeJobFires

SpecZone == InitZone /\ [][NextZone]_vars

\* C39: whatever the zone of the process, the collection start of a grade
\* race is 09:00 JST on the JST calendar day before the JST day of the
\* race's start time, and the job waits exactly while now is before it.
C39_CollectionStartNineJstDayBefore ==
    pass.pc \in {"scheduled", "fired"} =>
        /\ pass.collectionStart = NineJstTheDayBefore(pass.startTime)
        /\ pass.pc = "fired" => (pass.armed <=> pass.nowUTC < NineJstTheDayBefore(pass.startTime))

-----------------------------------------------------------------------------
(* SpecRetire: one registered race after its post time: the firings of     *)
(* its job, the self-retirement of the job, the passes they start and the  *)
(* periodic restoration, with fair timers and a Store that does not fail   *)
(* for ever                                                                *)

MaxInFlight == 2   \* callbacks of one kind in flight at once (saturating)

\* One more callback in flight; past MaxInFlight the count stays there.
OneMore(n) == IF n < MaxInFlight THEN n + 1 ELSE n

\* Mutant: restoration never creates a job.
RestorableNever(found, hasJob) == FALSE

\* checkAndRestoreRaceJobs creates a job for a race of its 'upcoming' read
\* that has no job in activeJobs.
Restorable(found, hasJob) == found /\ ~hasJob

\* The race has just started: status 'upcoming', its job in activeJobs.
\* pass.late: more than 5 minutes have passed since post time;
\* pass.lookups, pass.updates: retiring callbacks awaiting their Store
\* lookup / update; pass.passes: collectOdds calls in flight;
\* pass.restore: a restoration between its read and its loop;
\* pass.failed: a Store call of a retiring callback has failed.
InitRetire ==
    /\ pass = [status |-> "upcoming", job |-> TRUE, late |-> FALSE,
               lookups |-> 0, updates |-> 0, passes |-> 0,
               restore |-> "none", failed |-> FALSE]
    /\ errorCount = 0
    /\ now = 0
    /\ raceStatus = <<>>
    /\ activeJobs = <<>>
    /\ jobs = <<>>
    /\ semRunning = 0
    /\ semQueue = <<>>
    /\ proc = <<>>
    /\ cad = <<>>

RetireFrame == UNCHANGED <<now, raceStatus, activeJobs, jobs, semRunning, semQueue, proc, cad, errorCount>>

\* Five minutes after post time are over.
WindowCloses ==
    /\ ~pass.late
    /\ pass' = [pass EXCEPT !.late = TRUE]
    /\ RetireFrame

\* The job fires within 5 minutes after post time: timeToRace <= 0 forces
\* shouldCollect, and collectOdds is called.
FireInWindow ==
    /\ pass.job
    /\ ~pass.late
    /\ pass' = [pass EXCEPT !.passes = OneMore(@)]
    /\ RetireFrame

\* The job fires later than that: job.cancel() and activeJobs.delete(),
\* then the Store lookup is awaited.
FireLate ==
    /\ pass.job
    /\ pass.late
    /\ pass.lookups < MaxInFlight
    /\ pass' = [pass EXCEPT !.job = FALSE, !.lookups = @ + 1]
    /\ RetireFrame

\* The lookup of a retiring callback settles: an 'upcoming' race goes on
\* to the update; a failed lookup ends the callback in its catch block.
SelfRetireLookup(ok) ==
    /\ pass.lookups > 0
    /\ ok /\ pass.status = "upcoming" => pass.updates < MaxInFlight
    /\ pass' = [pass EXCEPT !.lookups = @ - 1,
                            !.updates = IF ok /\ pass.status = "upcoming" THEN @ + 1 ELSE @,
                            !.failed = @ \/ ~ok]
    /\ RetireFrame

\* The update of a retiring callback settles: status 'done', or the catch
\* block.
SelfRetireUpdate(ok) ==
    /\ pass.updates > 0
    /\ pass' = [pass EXCEPT !.updates = @ - 1,
                            !.status = IF ok THEN "done" ELSE @,
                            !.failed = @ \/ ~ok]
    /\ RetireFrame

\* A collectOdds call ends: on an 'upcoming' race past its post time it
\* was the terminal pass, which writes 'done' at its end unless a Store
\* call failed; on a 'done' race it was a no-op.
FinalPassEnds(ok) ==
    /\ pass.passes > 0
    /\ pass' = [pass EXCEPT !.passes = @ - 1,
                            !.status = IF ok THEN "done" ELSE @]
    /\ RetireFrame

\* checkAndRestoreRaceJobs reads the 'upcoming' races; a failed read ends
\* the call.
RestorationReads(ok) ==
    /\ pass.restore = "none"
    /\ pass' = [pass EXCEPT !.restore = IF ok /\ pass.status = "upcoming"
                                         THEN "found" ELSE "none"]
    /\ RetireFrame

\* The loop of checkAndRestoreRaceJobs reaches the race: without a job in
\* activeJobs, scheduleOddsCollection creates one and runs the initial
\* collectOdds.
RestorationSchedules ==
    /\ pass.restore = "found"
    /\ pass' = IF Restorable(TRUE, pass.job)
               THEN [pass EXCEPT !.restore = "none", !.job = TRUE, !.passes = OneMore(@)]
               ELSE [pass EXCEPT !.restore = "none"]
    /\ RetireFrame

NextRetire ==
    \/ WindowCloses
    \/ FireInWindow
    \/ FireLate
    \/ \E ok \in BOOLEAN :
        \/ SelfRetireLookup(ok)
        \/ SelfRetireUpdate(ok)
        \/ FinalPassEnds(ok)
        \/ RestorationReads(ok)
    \/ RestorationSchedules

\* Timers fire and awaited Store calls settle (weak fairness); a Store call
\* made again and again succeeds at some point (strong fairness).  Nothing
\* is assumed of the scraper: a collectOdds call may never end.
SpecRetire ==
    /\ InitRetire
    /\ [][NextRetire]_vars
    /\ WF_vars(WindowCloses)
    /\ WF_vars(FireLate)
    /\ WF_vars(\E ok \in BOOLEAN : SelfRetireLookup(ok))
    /\ WF_vars(\E ok \in BOOLEAN : SelfRetireUpdate(ok))
    /\ WF_vars(\E ok \in BOOLEAN : RestorationReads(ok))
    /\ WF_vars(RestorationSchedules)
    /\ SF_vars(SelfRetireLookup(TRUE))
    /\ SF_vars(SelfRetireUpdate(TRUE))
    /\ SF_vars(RestorationReads(TRUE))

Retired == pass.status = "done" /\ ~pass.job

\* C38: under fair timers and a Store that eventually succeeds, the
\* started race is eventually 'done' with no job in the active set, from
\* every state, also from one in which a Store call of the retiring
\* callback has failed after the job had cancelled itself.
C38_StartedRaceEventuallyRetired ==
    /\ <>Retired
    /\ (pass.failed /\ ~pass.job /\ pass.status = "upcoming") ~> Retired

\* The race is 'done' with no job after a Store call of a retiring
\* callback had failed.
C38_Witness == Retired /\ pass.failed /\ pass.lookups = 0 /\ pass.updates = 0

====
